---------------------------- MODULE Spec2Model ----------------------------
(***************************************************************************)
(* A model of hiproto: the ProtoBuffer wire buffer (src/src/protobuffer.ts),*)
(* the codec family (src/src/codecs.ts) and the Message engine             *)
(* (src/src/message.ts).                                                   *)
(*                                                                         *)
(* JavaScript values are tagged records [k |-> kind, <kind> |-> payload]:   *)
(*   "undef"  undefined                                                    *)
(*   "bool"   a boolean                                                    *)
(*   "num"    a number holding an integer, payload a wide integer          *)
(*   "big"    a bigint, payload a wide integer                             *)
(*   "u8"     a Uint8Array, payload its bytes                              *)
(*   "Bytes"  a Bytes object (the result of readBytes), payload its bytes  *)
(*   "arr"    an array, payload the sequence of its items                  *)
(*   "obj"    a plain object, payload a function from its keys             *)
(*   "unk"    one {index, wiretype, value} entry of the unknown fields     *)
(* the payload being the field named like the kind.                        *)
(* A wide integer is [neg, mag] with mag the little-endian bits of the     *)
(* magnitude and no high zero bit, so that 64-bit and longer values are    *)
(* exact.  Buffer offsets and lengths are plain integers.                  *)
(***************************************************************************)
EXTENDS Integers, Sequences, FiniteSets, TLC

(***************************************************************************)
(* Wide integers (JavaScript BigInt arithmetic).                           *)
(***************************************************************************)
\* A magnitude without its high zero bits.
Norm(bits) ==
  LET ones == {i \in 1..Len(bits) : bits[i] = 1} IN
  IF ones = {} THEN <<>>
  ELSE SubSeq(bits, 1, CHOOSE i \in ones : \A j \in ones : j <= i)

RECURSIVE NatBits(_)
NatBits(n) == IF n = 0 THEN <<>> ELSE <<n % 2>> \o NatBits(n \div 2)

RECURSIVE BitsNat(_)
BitsNat(bits) ==
  IF bits = <<>> THEN 0 ELSE bits[1] + 2 * BitsNat(Tail(bits))

Wide(neg, bits) ==
  LET m == Norm(bits) IN [neg |-> neg /\ m # <<>>, mag |-> m]

W(n) == IF n < 0 THEN Wide(TRUE, NatBits(-n)) ELSE Wide(FALSE, NatBits(n))

Zero == W(0)

\* The first n bits of a magnitude, padded with zero bits.
Low(bits, n) == [i \in 1..n |-> IF i <= Len(bits) THEN bits[i] ELSE 0]

NotBits(bits) == [i \in 1..Len(bits) |-> 1 - bits[i]]

\* The position of the lowest bit equal to x, Len(bits) + 1 if there is none.
Lowest(bits, x) ==
  LET at == {i \in 1..Len(bits) : bits[i] = x} IN
  IF at = {} THEN Len(bits) + 1
  ELSE CHOOSE i \in at : \A j \in at : i <= j

\* bits + 1 in Len(bits) bits.
IncBits(bits) ==
  LET z == Lowest(bits, 0) IN
  [i \in 1..Len(bits) |-> IF i < z THEN 0 ELSE IF i = z THEN 1 ELSE bits[i]]

\* Two's complement negation in Len(bits) bits.
Neg2c(bits) == IncBits(NotBits(bits))

\* BigInt.asUintN(n, w), as n bits.
UintBits(n, w) == IF w.neg THEN Neg2c(Low(w.mag, n)) ELSE Low(w.mag, n)

asUintN(n, w) == Wide(FALSE, UintBits(n, w))

asIntN(n, w) ==
  LET u == UintBits(n, w) IN
  IF u[n] = 1 THEN Wide(TRUE, Neg2c(u)) ELSE Wide(FALSE, u)

bnAbs(w) == Wide(FALSE, w.mag)

\* w >> n for a non-negative w.
ShiftRight(w, n) ==
  IF Len(w.mag) <= n THEN Zero
  ELSE Wide(FALSE, SubSeq(w.mag, n + 1, Len(w.mag)))

\* Bits beyond HugeBits do not fit an offset or a length of the model.
HugeBits == 20

RECURSIVE Pow2(_)
Pow2(n) == IF n = 0 THEN 1 ELSE 2 * Pow2(n - 1)

\* Number(w) where the result is used as a buffer length: exact below
\* 2^HugeBits; a larger magnitude is cut to 2^HugeBits, which is beyond every
\* buffer of the model, so every bounds check decides as it does for w.
ToLength(w) ==
  LET m == IF Len(w.mag) > HugeBits THEN Pow2(HugeBits) ELSE BitsNat(w.mag) IN
  IF w.neg THEN -m ELSE m

Max(a, b) == IF a >= b THEN a ELSE b

\* const v = <expression>; In(v): the expression is evaluated once and named.
Let(v, In(_)) == In(v)


(***************************************************************************)
(* JavaScript values.                                                      *)
(***************************************************************************)
Undef == [k |-> "undef", undef |-> 0]
Bool(x) == [k |-> "bool", bool |-> x]
Num(w) == [k |-> "num", num |-> w]
Big(w) == [k |-> "big", big |-> w]
U8(bytes) == [k |-> "u8", u8 |-> bytes]
BytesObj(bytes) == [k |-> "Bytes", Bytes |-> bytes]
Arr(items) == [k |-> "arr", arr |-> items]
Obj(f) == [k |-> "obj", obj |-> f]
Unk(index, wiretype, value) ==
  [k |-> "unk", unk |-> [index |-> index, wiretype |-> wiretype, value |-> value]]

\* The payload of a value: the field named by its kind.
Payload(x) == x[x.k]

\* ToBoolean(x): undefined, false, 0, 0n and NaN are falsy; every object
\* (an empty array, an empty Uint8Array, a Bytes) is truthy.
Truthy(x) ==
  CASE x.k = "undef" -> FALSE
    [] x.k = "bool" -> x.bool
    [] x.k = "num" -> x.num # Zero
    [] x.k = "big" -> x.big # Zero
    [] OTHER -> TRUE

IsArray(x) == x.k = "arr"

\* value.length of a Uint8Array, a Bytes or an array.
JsLength(x) == Len(Payload(x))

(***************************************************************************)
(* Wire types (enum WireType).                                             *)
(***************************************************************************)
Varint == 0
I64 == 1
LenType == 2
SGroup == 3
EGroup == 4
I32 == 5

(***************************************************************************)
(* class Bytes: a Uint8Array `buf` and an optional `range`, <<>> when      *)
(* undefined.  A ProtoBuffer is modelled together with its Bytes as        *)
(*   [buf, range, offset, written, err]                                    *)
(* where err is "" or the error that was thrown; an operation on a buffer  *)
(* whose err is set does nothing (the exception is propagating).           *)
(***************************************************************************)
NewProtoBuffer(buf, range) ==
  [buf |-> buf, range |-> range, offset |-> 0, written |-> 0, err |-> ""]

Throw(b, e) == [b EXCEPT !.err = e]

Failed(b) == b.err # ""

Zeros(n) == [i \in 1..n |-> 0]

\* const [start = 0, end = buffer.length] = this.range ?? []
RangeStart(b) == IF b.range = <<>> THEN 0 ELSE b.range[1]
RangeEnd(b) == IF b.range = <<>> THEN Len(b.buf) ELSE b.range[2]

Bytes_length(b) == RangeEnd(b) - RangeStart(b)

Bytes_resizable(b) == b.range = <<>>

\* new DataView(buffer.buffer, start, end - start) in getView, which the Bytes
\* constructor calls: a RangeError unless 0 <= start <= byteLength,
\* end - start >= 0 and end <= byteLength.
ViewOk(buf, s, e) == s >= 0 /\ s <= Len(buf) /\ e - s >= 0 /\ e <= Len(buf)

\* uint8array[i] = value: the value is stored modulo 256 and a store outside the
\* array is ignored.
StoreByte(buf, i, value) ==
  IF i >= 0 /\ i < Len(buf) THEN [buf EXCEPT ![i + 1] = value % 256] ELSE buf

\* Bytes.get(index)
Bytes_getOk(b, index) == index >= 0 /\ index < RangeEnd(b)

Bytes_get(b, index) ==
  LET i == RangeStart(b) + index IN
  IF i >= 0 /\ i < Len(b.buf) THEN b.buf[i + 1] ELSE 0

\* Bytes.set(index, value) with a number.
Bytes_setNumber(b, index, value) ==
  [b EXCEPT !.buf = StoreByte(b.buf, RangeStart(b) + index, value)]

\* What Uint8Array.prototype.set reads from its source: the elements of a
\* Uint8Array; a Bytes object is array-like only by its length getter and has no
\* indexed elements, so each element reads undefined and is stored as 0.
SourceBytes(value) ==
  IF value.k = "Bytes" THEN Zeros(Len(value.Bytes)) ELSE Payload(value)

\* Bytes.set(index, value) with a Uint8Array (or an array-like).
Bytes_setArray(b, index, value) ==
  LET n == JsLength(value)
      at == RangeStart(b) + index
  IN IF index + n > RangeEnd(b) THEN Throw(b, "RangeError: Buffer overflow")
     ELSE IF at < 0 \/ at + n > Len(b.buf)
       THEN Throw(b, "RangeError: offset is out of bounds")
     ELSE [b EXCEPT !.buf = [i \in 1..Len(b.buf) |->
             IF i > at /\ i <= at + n THEN SourceBytes(value)[i - at]
             ELSE b.buf[i]]]

\* Bytes.resize(size)
Bytes_resize(b, size) ==
  IF ~Bytes_resizable(b) THEN Throw(b, "Error: Buffer overflow")
  ELSE [b EXCEPT !.buf = [i \in 1..size |->
          IF i <= Len(b.buf) THEN b.buf[i] ELSE 0]]

\* Bytes.ensureCapacity(size)
Bytes_ensureCapacity(b, size) ==
  IF Len(b.buf) < size THEN Bytes_resize(b, size) ELSE b

\* Bytes.slice(start, end): the range of the new Bytes, or the error.
\* `end` is tested for truthiness, so an end of 0 counts as not given.
Bytes_sliceErr(b, start, end) ==
  LET myStart == RangeStart(b)
      myEnd == RangeEnd(b)
      s == myStart + start
      e == IF end # 0 THEN myStart + end ELSE myEnd
  IN IF start < 0 \/ (end # 0 /\ end > myEnd - myStart)
       THEN "RangeError: Slice out of bounds"
     ELSE IF ~ViewOk(b.buf, s, e) THEN "RangeError: Invalid DataView"
     ELSE ""

Bytes_sliceRange(b, start, end) ==
  <<RangeStart(b) + start, IF end # 0 THEN RangeStart(b) + end ELSE RangeEnd(b)>>

\* Bytes.toUint8Array() of the Bytes with range r over buf.
RangeBytes(buf, r) == SubSeq(buf, r[1] + 1, r[2])

Bytes_toUint8Array(b) == SubSeq(b.buf, RangeStart(b) + 1, RangeEnd(b))

(***************************************************************************)
(* class ProtoBuffer: writes.                                              *)
(***************************************************************************)
\* ProtoBuffer.ensureCapacity(size)
ensureCapacity(b, size) ==
  IF Failed(b) THEN b ELSE Bytes_ensureCapacity(b, b.offset + size)

\* this.#offset += n; this.#writtenLength = Math.max(this.#writtenLength, this.#offset)
Advance(b, n) ==
  [b EXCEPT !.offset = b.offset + n, !.written = Max(b.written, b.offset + n)]

\* ProtoBuffer.writeFieldHeader(index, ty): index >> 5 is non-zero for every
\* index outside 0..31.
writeFieldHeader(b, index, ty) ==
  IF Failed(b) THEN b
  ELSE IF index < 0 \/ index >= 32
    THEN Throw(b, "RangeError: Field index too large")
  ELSE Let(ensureCapacity(b, 1), LAMBDA b1 :
         IF Failed(b1) THEN b1
         ELSE Advance(Bytes_setNumber(b1, b1.offset, index * 8 + ty), 1))

\* The 7-bit groups of a non-zero magnitude, least significant first, each but
\* the last with the continuation bit (the loop body of writeVarint).
RECURSIVE VarintGroups(_)
VarintGroups(bits) ==
  IF Len(bits) <= 7 THEN <<BitsNat(bits)>>
  ELSE <<BitsNat(SubSeq(bits, 1, 7)) + 128>>
         \o VarintGroups(SubSeq(bits, 8, Len(bits)))

\* The loop of writeVarint: each byte is written after its own ensureCapacity(1)
\* and the offset moves with it; writtenLength is set after the loop only.
RECURSIVE WriteVarintLoop(_, _)
WriteVarintLoop(b, bytes) ==
  IF bytes = <<>> THEN [b EXCEPT !.written = Max(b.written, b.offset)]
  ELSE Let(ensureCapacity(b, 1), LAMBDA b1 :
         IF Failed(b1) THEN b1
         ELSE WriteVarintLoop(
                [Bytes_setNumber(b1, b1.offset, Head(bytes))
                   EXCEPT !.offset = b1.offset + 1],
                Tail(bytes)))

\* ProtoBuffer.writeVarint(value), value a wide integer.
writeVarint(b, value) ==
  IF Failed(b) THEN b
  ELSE IF value = Zero THEN
    Let(ensureCapacity(b, 1), LAMBDA b1 :
      IF Failed(b1) THEN b1 ELSE Advance(Bytes_setNumber(b1, b1.offset, 0), 1))
  ELSE IF ShiftRight(bnAbs(value), 64) # Zero
    THEN Throw(b, "RangeError: Value has more than 64 bits")
  ELSE WriteVarintLoop(b, VarintGroups(asUintN(64, value).mag))

\* The little-endian bytes of a bit string whose length is a multiple of 8.
BitsToBytes(bits) ==
  [i \in 1..(Len(bits) \div 8) |-> BitsNat(SubSeq(bits, 8 * i - 7, 8 * i))]

BytesToBits(bytes) ==
  [j \in 1..(8 * Len(bytes)) |->
     (bytes[((j - 1) \div 8) + 1] \div Pow2((j - 1) % 8)) % 2]

\* DataView.prototype.set*(offset, ...) of n bytes on the view of the Bytes: a
\* RangeError unless the n bytes lie inside the view.
ViewWrite(b, bytes) ==
  LET n == Len(bytes)
      at == RangeStart(b) + b.offset
  IN IF b.offset < 0 \/ b.offset + n > Bytes_length(b)
       THEN Throw(b, "RangeError: Offset is outside the bounds of the DataView")
     ELSE Advance([b EXCEPT !.buf = [i \in 1..Len(b.buf) |->
             IF i > at /\ i <= at + n THEN bytes[i - at] ELSE b.buf[i]]], n)

\* ProtoBuffer.writeFixed32(value): setUint32 stores the value modulo 2^32.
writeFixed32(b, value) ==
  Let(ensureCapacity(b, 4), LAMBDA b1 :
    IF Failed(b1) THEN b1 ELSE ViewWrite(b1, BitsToBytes(UintBits(32, value))))

\* ProtoBuffer.writeSfixed32(value)
writeSfixed32(b, value) == writeFixed32(b, value)

\* ProtoBuffer.writeFixed64(value): setBigUint64 stores the value modulo 2^64.
writeFixed64(b, value) ==
  Let(ensureCapacity(b, 8), LAMBDA b1 :
    IF Failed(b1) THEN b1 ELSE ViewWrite(b1, BitsToBytes(UintBits(64, value))))

\* ProtoBuffer.writeSfixed64(value)
writeSfixed64(b, value) == writeFixed64(b, value)

\* ProtoBuffer.writeBytes(value), value a Uint8Array or a Bytes.
writeBytes(b, value) ==
  Let(ensureCapacity(b, JsLength(value)), LAMBDA b1 :
    IF Failed(b1) THEN b1
    ELSE Let(Bytes_setArray(b1, b1.offset, value), LAMBDA b2 :
           IF Failed(b2) THEN b2 ELSE Advance(b2, JsLength(value))))

\* ProtoBuffer.writeField(index, wiretype, value)
writeField(b, index, wiretype, value) ==
  Let(writeFieldHeader(b, index, wiretype), LAMBDA b1 :
    IF Failed(b1) THEN b1
    ELSE CASE wiretype = Varint -> writeVarint(b1, Payload(value))
           [] wiretype = I32 -> writeFixed32(b1, Payload(value))
           [] wiretype = I64 -> writeFixed64(b1, Payload(value))
           [] wiretype = LenType -> writeBytes(b1, value)
           [] wiretype \in {SGroup, EGroup} ->
                Throw(b1, "Error: Group types are not supported")
           [] OTHER -> b1)

(***************************************************************************)
(* class ProtoBuffer: reads.  A read yields [b, v]: the buffer after the   *)
(* read and the value read (Undef when the read threw).                    *)
(***************************************************************************)
Ret(b, v) == [b |-> b, v |-> v]

\* ProtoBuffer.assertCapacity(size): TRUE when it does not throw.
assertCapacity(b, size) == ~(Bytes_length(b) - b.offset < size)

\* ProtoBuffer.peekFieldHeader / readFieldHeader: v is <<index, wiretype>>.
readFieldHeader(b) ==
  IF Failed(b) THEN Ret(b, <<0, 0>>)
  ELSE IF ~assertCapacity(b, 1) THEN Ret(Throw(b, "Error: Buffer overflow"), <<0, 0>>)
  ELSE IF ~Bytes_getOk(b, b.offset)
    THEN Ret(Throw(b, "RangeError: Index out of bounds"), <<0, 0>>)
  ELSE LET header == Bytes_get(b, b.offset) IN
       Ret([b EXCEPT !.offset = b.offset + 1], <<header \div 8, header % 8>>)

\* The loop of readUvarint; acc holds the bits read so far.
RECURSIVE ReadUvarintLoop(_, _)
ReadUvarintLoop(b, acc) ==
  IF b.offset >= Bytes_length(b) THEN Ret(Throw(b, "Error: Buffer underflow"), Undef)
  ELSE IF ~Bytes_getOk(b, b.offset)
    THEN Ret(Throw(b, "RangeError: Index out of bounds"), Undef)
  ELSE LET byte == Bytes_get(b, b.offset)
           b1 == [b EXCEPT !.offset = b.offset + 1]
           acc1 == acc \o Low(NatBits(byte % 128), 7)
       IN IF byte >= 128 THEN ReadUvarintLoop(b1, acc1)
          ELSE Ret(b1, Big(Wide(FALSE, acc1)))

\* ProtoBuffer.readUvarint()
readUvarint(b) == IF Failed(b) THEN Ret(b, Undef) ELSE ReadUvarintLoop(b, <<>>)

\* A varint read that stops at the first byte whose continuation bit is clear
\* and returns the unsigned value.
readVarintUnsigned(b) == readUvarint(b)

\* ProtoBuffer.readVarint()
readVarint(b) ==
  Let(readUvarint(b), LAMBDA r :
    IF Failed(r.b) THEN r ELSE Ret(r.b, Big(asIntN(64, r.v.big))))

\* DataView.prototype.get*(offset) of n bytes after assertCapacity(n): the
\* bytes read, as bits.
ViewRead(b, n) ==
  IF Failed(b) THEN Ret(b, <<>>)
  ELSE IF ~assertCapacity(b, n) THEN Ret(Throw(b, "Error: Buffer overflow"), <<>>)
  ELSE IF b.offset < 0 \/ b.offset + n > Bytes_length(b)
    THEN Ret(Throw(b, "RangeError: Offset is outside the bounds of the DataView"), <<>>)
  ELSE Ret([b EXCEPT !.offset = b.offset + n],
           BytesToBits(SubSeq(b.buf, RangeStart(b) + b.offset + 1,
                              RangeStart(b) + b.offset + n)))

\* ProtoBuffer.readFixed32(): a number.
readFixed32(b) ==
  Let(ViewRead(b, 4), LAMBDA r :
    IF Failed(r.b) THEN Ret(r.b, Undef) ELSE Ret(r.b, Num(Wide(FALSE, r.v))))

\* A 4-byte read that takes the bytes as unsigned.
readSfixed32Unsigned(b) == readFixed32(b)

\* ProtoBuffer.readSfixed32(): a number.
readSfixed32(b) ==
  Let(ViewRead(b, 4), LAMBDA r :
    IF Failed(r.b) THEN Ret(r.b, Undef) ELSE Ret(r.b, Num(asIntN(32, Wide(FALSE, r.v)))))

\* ProtoBuffer.readFixed64(): a bigint.
readFixed64(b) ==
  Let(ViewRead(b, 8), LAMBDA r :
    IF Failed(r.b) THEN Ret(r.b, Undef) ELSE Ret(r.b, Big(Wide(FALSE, r.v))))

\* ProtoBuffer.readSfixed64(): a bigint.
readSfixed64(b) ==
  Let(ViewRead(b, 8), LAMBDA r :
    IF Failed(r.b) THEN Ret(r.b, Undef) ELSE Ret(r.b, Big(asIntN(64, Wide(FALSE, r.v)))))

\* ProtoBuffer.readBytes(length): a Bytes over the same array.
readBytes(b, length) ==
  IF Failed(b) THEN Ret(b, Undef)
  ELSE IF ~assertCapacity(b, length)
    THEN Ret(Throw(b, "Error: Buffer overflow"), Undef)
  ELSE LET e == Bytes_sliceErr(b, b.offset, b.offset + length) IN
       IF e # "" THEN Ret(Throw(b, e), Undef)
       ELSE Ret([b EXCEPT !.offset = b.offset + length],
                BytesObj(RangeBytes(b.buf,
                   Bytes_sliceRange(b, b.offset, b.offset + length))))

\* ProtoBuffer.slice(length): v is the new sub-ProtoBuffer.
slice(b, length) ==
  IF Failed(b) THEN Ret(b, b)
  ELSE LET e == Bytes_sliceErr(b, b.offset, b.offset + length) IN
       IF e # "" THEN Ret(Throw(b, e), Throw(b, e))
       ELSE Ret(Advance(b, length),
                NewProtoBuffer(b.buf,
                   Bytes_sliceRange(b, b.offset, b.offset + length)))

\* ProtoBuffer.readWireType(wiretype)
readWireType(b, wiretype) ==
  CASE wiretype = Varint -> readVarint(b)
    [] wiretype = I32 -> readFixed32(b)
    [] wiretype = I64 -> readFixed64(b)
    [] wiretype = LenType ->
         Let(readVarint(b), LAMBDA r :
           IF Failed(r.b) THEN r ELSE readBytes(r.b, ToLength(r.v.big)))
    [] wiretype \in {SGroup, EGroup} ->
         Ret(Throw(b, "Error: Group types are not supported"), Undef)
    [] OTHER -> Ret(b, Undef)

\* ProtoBuffer.seek(offset)
seek(b, offset) == [b EXCEPT !.offset = offset]

\* ProtoBuffer.remainingLength
remainingLength(b) == Bytes_length(b) - b.offset

\* ProtoBuffer.toShrunk()
toShrunk(b) ==
  LET e == Bytes_sliceErr(b, 0, b.written) IN
  IF e # "" THEN Throw(b, e)
  ELSE [b EXCEPT !.range = Bytes_sliceRange(b, 0, b.written)]

\* A length that could not be computed because the computation threw.
Threw == 0 - 1

\* a + b, or Threw when either threw.
Plus(a, b) == IF a < 0 \/ b < 0 THEN Threw ELSE a + b

\* ProtoBuffer.varintLength(value): one per 7 bits of the unsigned value.
varintLength(value) ==
  IF value = Zero THEN 1
  ELSE IF ShiftRight(bnAbs(value), 64) # Zero THEN Threw
  ELSE (Len(asUintN(64, value).mag) + 6) \div 7

\* Magnitude minus one (of a non-zero magnitude) and plus one.
DecBits(bits) ==
  LET o == Lowest(bits, 1) IN
  [i \in 1..Len(bits) |-> IF i < o THEN 1 ELSE IF i = o THEN 0 ELSE bits[i]]

IncMag(bits) == IncBits(bits \o <<0>>)

\* getZigzag(value) = value < 0n ? ((~value) << 1n) | 1n : value << 1n
getZigzag(value) ==
  IF value.neg THEN Wide(FALSE, <<1>> \o DecBits(value.mag))
  ELSE Wide(FALSE, <<0>> \o value.mag)

\* ProtoBuffer.writeZigzag(value)
writeZigzag(b, value) == writeVarint(b, getZigzag(value))

\* A zigzag read that drops the sign bit without applying it.
readZigzagShiftOnly(b) ==
  Let(readUvarint(b), LAMBDA r :
    IF Failed(r.b) THEN r ELSE Ret(r.b, Big(ShiftRight(r.v.big, 1))))

\* ProtoBuffer.readZigzag(): (result >> 1n) ^ -(result & 1n)
readZigzag(b) ==
  Let(readUvarint(b), LAMBDA r :
    IF Failed(r.b) THEN r
    ELSE LET u == r.v.big.mag IN
         IF u # <<>> /\ u[1] = 1 THEN Ret(r.b, Big(Wide(TRUE, IncMag(Tail(u)))))
         ELSE Ret(r.b, Big(ShiftRight(r.v.big, 1))))

\* ProtoBuffer.zigzagLength(value)
zigzagLength(value) == varintLength(getZigzag(value))

(***************************************************************************)
(* Codecs (src/src/codecs.ts).  A codec is [kind, fields]; fields is the   *)
(* field list of the nested message of a submessage codec and <<>> for the *)
(* other kinds.  A field schema is [name, index, codec, repeated, required]*)
(* with repeated one of "None", "Default", "Expanded" (enum Repeatedness). *)
(* A message schema is the sequence of its field schemas, in declaration   *)
(* order.                                                                  *)
(***************************************************************************)
Codec(kind) == [kind |-> kind, fields |-> <<>>]

Submessage(fields) == [kind |-> "submessage", fields |-> fields]

Field(name, index, codec, repeated) ==
  [name |-> name, index |-> index, codec |-> codec,
   repeated |-> repeated, required |-> FALSE]

Required(field) == [field EXCEPT !.required = TRUE]

NumberKinds == {"int32", "uint32", "sint32", "fixed32", "sfixed32", "enum"}
BigintKinds == {"int64", "uint64", "sint64", "fixed64", "sfixed64"}

\* codec.wiretype
CodecWiretype(c) ==
  CASE c.kind \in {"bool", "int32", "int64", "uint32", "uint64",
                   "sint32", "sint64", "enum"} -> Varint
    [] c.kind \in {"fixed32", "sfixed32"} -> I32
    [] c.kind \in {"fixed64", "sfixed64"} -> I64
    [] OTHER -> LenType

\* value[key]: undefined when the object has no such property.
GetProp(value, key) ==
  IF value.k = "obj" /\ key \in DOMAIN value.obj THEN value.obj[key] ELSE Undef

\* The property under which a decoded message carries its unknown fields
\* (the UnknownFields symbol).
UnknownFields == "UnknownFields"

UMap(f) == [k |-> "umap", umap |-> f]

\* codec.default
RECURSIVE CodecDefault(_)
CodecDefault(c) ==
  CASE c.kind = "bool" -> Bool(FALSE)
    [] c.kind \in NumberKinds -> Num(Zero)
    [] c.kind \in BigintKinds -> Big(Zero)
    [] c.kind = "bytes" -> U8(<<>>)
    [] c.kind = "submessage" ->
         Obj([n \in {c.fields[i].name : i \in 1..Len(c.fields)} |->
                CodecDefault(
                  (CHOOSE f \in {c.fields[i] : i \in 1..Len(c.fields)} :
                     f.name = n).codec)])

\* codec.isDefault(value): "yes", "no", or "TypeError" when the test throws
\* (the length of undefined, a property of undefined).
RECURSIVE CodecIsDefault(_, _)
RECURSIVE SubIsDefault(_, _, _)
SubIsDefault(fields, value, i) ==
  IF i > Len(fields) THEN "yes"
  ELSE Let(CodecIsDefault(fields[i].codec, GetProp(value, fields[i].name)),
           LAMBDA r : IF r = "yes" THEN SubIsDefault(fields, value, i + 1) ELSE r)

CodecIsDefault(c, value) ==
  CASE c.kind = "bool" -> IF value.k = "bool" /\ ~value.bool THEN "yes" ELSE "no"
    [] c.kind \in NumberKinds ->
         IF value.k = "num" /\ value.num = Zero THEN "yes" ELSE "no"
    [] c.kind \in BigintKinds ->
         IF value.k = "big" /\ value.big = Zero THEN "yes" ELSE "no"
    [] c.kind = "bytes" ->
         IF value.k \in {"u8", "Bytes", "arr"}
           THEN (IF JsLength(value) = 0 THEN "yes" ELSE "no")
         ELSE IF value.k = "undef" THEN "TypeError" ELSE "no"
    [] c.kind = "submessage" ->
         IF value.k = "undef" /\ Len(c.fields) > 0 THEN "TypeError"
         ELSE SubIsDefault(c.fields, value, 1)

\* getEncodeMode(schema)
getEncodeMode(schema) ==
  CASE schema.repeated = "None" -> "Single"
    [] schema.repeated = "Default" ->
         IF CodecWiretype(schema.codec) = LenType THEN "Expanded" ELSE "Packed"
    [] schema.repeated = "Expanded" -> "Expanded"

\* codec.length(value) and Message.length(value); Threw when it throws.
RECURSIVE CodecLength(_, _)
RECURSIVE Message_length(_, _)
RECURSIVE ItemsLength(_, _, _)
RECURSIVE FieldsLength(_, _, _)

\* The sum over the items of extra + schema.length(item).
ItemsLength(c, items, extra) ==
  IF items = <<>> THEN 0
  ELSE Plus(Plus(extra, CodecLength(c, Head(items))),
            ItemsLength(c, Tail(items), extra))

CodecLength(c, value) ==
  CASE c.kind = "bool" -> 1
    [] c.kind \in {"int32", "int64", "uint32", "uint64", "enum"} ->
         IF value.k \in {"num", "big"} THEN varintLength(Payload(value)) ELSE Threw
    [] c.kind \in {"sint32", "sint64"} ->
         IF value.k \in {"num", "big"} THEN zigzagLength(Payload(value)) ELSE Threw
    [] c.kind \in {"fixed32", "sfixed32"} -> 4
    [] c.kind \in {"fixed64", "sfixed64"} -> 8
    [] c.kind = "bytes" ->
         IF value.k \in {"u8", "Bytes", "arr"}
           THEN varintLength(W(JsLength(value))) + JsLength(value)
         ELSE Threw
    [] c.kind = "submessage" ->
         Let(Message_length(c.fields, value), LAMBDA length :
           IF length < 0 THEN Threw ELSE varintLength(W(length)) + length)

\* One turn of the loop of Message.length, for field i.
FieldsLength(fields, value, i) ==
  IF i > Len(fields) THEN 0
  ELSE
    LET schema == fields[i]
        v == GetProp(value, schema.name)
        here ==
          CASE getEncodeMode(schema) = "Single" ->
                 IF ~Truthy(v) THEN 0
                 ELSE Let(CodecIsDefault(schema.codec, v), LAMBDA d :
                        IF d = "TypeError" THEN Threw
                        ELSE IF d = "yes" THEN 0
                        ELSE Plus(1, CodecLength(schema.codec, v)))
            [] getEncodeMode(schema) = "Packed" ->
                 IF v.k = "undef" THEN 0
                 ELSE IF ~IsArray(v) THEN Threw
                 ELSE IF Len(v.arr) = 0 THEN 0
                 ELSE Plus(2, ItemsLength(schema.codec, v.arr, 0))
            [] getEncodeMode(schema) = "Expanded" ->
                 IF v.k = "undef" THEN 0
                 ELSE IF ~IsArray(v) THEN Threw
                 ELSE ItemsLength(schema.codec, v.arr, 1)
    IN Plus(here, FieldsLength(fields, value, i + 1))

Message_length(fields, value) ==
  IF value.k = "undef" /\ Len(fields) > 0 THEN Threw
  ELSE FieldsLength(fields, value, 1)

(***************************************************************************)
(* Encoding: codec.encode(value, buffer) and Message.encode(value, buffer).*)
(***************************************************************************)
RECURSIVE CodecEncode(_, _, _)
RECURSIVE Message_encode(_, _, _)
RECURSIVE EncodeItems(_, _, _, _)
RECURSIVE EncodeFields(_, _, _, _)
RECURSIVE EncodeUnknown(_, _, _)

CodecEncode(c, value, b) ==
  IF Failed(b) THEN b
  ELSE CASE c.kind = "bool" -> writeVarint(b, IF Truthy(value) THEN W(1) ELSE Zero)
    [] c.kind \in {"int32", "int64", "uint32", "uint64", "enum"} ->
         IF value.k \in {"num", "big"} THEN writeVarint(b, Payload(value))
         ELSE Throw(b, "TypeError")
    [] c.kind \in {"sint32", "sint64"} ->
         IF value.k \in {"num", "big"} THEN writeZigzag(b, Payload(value))
         ELSE Throw(b, "TypeError")
    [] c.kind = "fixed32" -> writeFixed32(b, Payload(value))
    [] c.kind = "sfixed32" -> writeSfixed32(b, Payload(value))
    [] c.kind = "fixed64" -> writeFixed64(b, Payload(value))
    [] c.kind = "sfixed64" -> writeSfixed64(b, Payload(value))
    [] c.kind = "bytes" ->
         IF value.k \in {"u8", "Bytes"}
           THEN writeBytes(writeVarint(b, W(JsLength(value))), value)
         ELSE Throw(b, "TypeError")
    [] c.kind = "submessage" ->
         Let(Message_length(c.fields, value), LAMBDA length :
           IF length < 0 THEN Throw(b, "DecodeError: value is not an array")
           ELSE Message_encode(c.fields, value, writeVarint(b, W(length))))

\* for (const item of val[field]) { [header;] schema.codec.encode(item, buffer) }
EncodeItems(schema, items, b, expanded) ==
  IF items = <<>> \/ Failed(b) THEN b
  ELSE LET b1 == IF expanded
                   THEN writeFieldHeader(b, schema.index, CodecWiretype(schema.codec))
                 ELSE b
       IN EncodeItems(schema, Tail(items),
                      CodecEncode(schema.codec, Head(items), b1), expanded)

\* One turn of the field loop of Message.encode, for field i.
EncodeFields(fields, value, b, i) ==
  IF i > Len(fields) \/ Failed(b) THEN b
  ELSE
    LET schema == fields[i]
        v == GetProp(value, schema.name)
        b1 ==
          Let(IF Truthy(v) THEN CodecIsDefault(schema.codec, v) ELSE "yes",
              LAMBDA d :
          IF d = "TypeError" THEN Throw(b, "TypeError")
          ELSE IF d = "yes" THEN b
          ELSE CASE getEncodeMode(schema) = "Single" ->
                 CodecEncode(schema.codec, v,
                   writeFieldHeader(b, schema.index, CodecWiretype(schema.codec)))
            [] getEncodeMode(schema) = "Packed" ->
                 IF ~IsArray(v) \/ Len(v.arr) = 0 THEN b
                 ELSE Let(ItemsLength(schema.codec, v.arr, 0), LAMBDA byteLength :
                        IF byteLength < 0 THEN Throw(b, "TypeError")
                        ELSE EncodeItems(schema, v.arr,
                               ensureCapacity(
                                 writeVarint(
                                   writeFieldHeader(b, schema.index, LenType),
                                   W(byteLength)),
                                 byteLength),
                               FALSE))
            [] getEncodeMode(schema) = "Expanded" ->
                 IF ~IsArray(v) \/ Len(v.arr) = 0 THEN b
                 ELSE EncodeItems(schema, v.arr, b, TRUE))
    IN EncodeFields(fields, value, b1, i + 1)

\* The indexes of an unknown-fields object in the order of Object.values:
\* integer keys enumerate in ascending order.
RECURSIVE AscendingKeys(_)
AscendingKeys(S) ==
  IF S = {} THEN <<>>
  ELSE LET m == CHOOSE x \in S : \A y \in S : x <= y IN
       <<m>> \o AscendingKeys(S \ {m})

\* for (const { index, wiretype, value } of Object.values(unknown))
\*   buffer.writeField(index, wiretype, value)
\* An entry that is an array (two or more unknown fields of one index)
\* destructures to undefined index, wiretype and value: writeFieldHeader then
\* writes the byte (undefined << 3) | undefined = 0 and no case of writeField's
\* switch applies.
EncodeUnknown(umap, keys, b) ==
  IF keys = <<>> \/ Failed(b) THEN b
  ELSE LET e == umap[Head(keys)]
           b1 == IF e.k = "unk"
                   THEN writeField(b, e.unk.index, e.unk.wiretype, e.unk.value)
                 ELSE writeFieldHeader(b, 0, 0)
       IN EncodeUnknown(umap, Tail(keys), b1)

Message_encode(fields, value, b) ==
  LET u == GetProp(value, UnknownFields) IN
  IF u.k = "umap"
    THEN EncodeUnknown(u.umap, AscendingKeys(DOMAIN u.umap),
                       EncodeFields(fields, value, b, 1))
  ELSE EncodeFields(fields, value, b, 1)

(***************************************************************************)
(* Decoding: codec.decode(buffer) and Message.decode(buffer).              *)
(* The state of a running Message.decode is [b, payload, unknown]: the     *)
(* buffer, payload as a function from the declared field names (Undef for  *)
(* a property not yet set) and the unknown-fields object as a function     *)
(* from the indexes it holds.                                              *)
(***************************************************************************)
\* pushValue(obj, key, value): the new obj[key], given the old one.
pushValue(old, value) ==
  IF Truthy(old)
    THEN (IF IsArray(old) THEN Arr(Append(old.arr, value))
          ELSE Arr(<<old, value>>))
  ELSE value

FieldNames(fields) == {fields[i].name : i \in 1..Len(fields)}

\* this.#fieldIndex[index]: the position of the field with that index, 0 when
\* there is none.
FieldIndex(fields, index) ==
  IF \E i \in 1..Len(fields) : fields[i].index = index
    THEN CHOOSE i \in 1..Len(fields) : fields[i].index = index
  ELSE 0

NewDecode(b, fields) ==
  [b |-> b, payload |-> [n \in FieldNames(fields) |-> Undef],
   unknown |-> [i \in {} |-> Undef]]

\* Assign f[x] = y, adding x to the domain when it is new.
Put(f, x, y) == [z \in DOMAIN f \cup {x} |-> IF z = x THEN y ELSE f[z]]

RECURSIVE CodecDecode(_, _)
RECURSIVE Message_decode(_, _)
RECURSIVE DecodeLoop(_, _, _)
RECURSIVE DecodePacked(_, _, _)
RECURSIVE DecodePost(_, _, _)

\* Number(x) of a bigint that fits a number exactly.
ToNum(r) == IF Failed(r.b) THEN r ELSE Ret(r.b, Num(r.v.big))

\* msg.decode(buffer.slice(length)) of the submessage codec: s is the outcome
\* of the slice.
DecodeSlice(c, s) ==
  IF Failed(s.b) THEN Ret(s.b, Undef)
  ELSE Let(Message_decode(c.fields, s.v), LAMBDA m :
         IF Failed(m.b) THEN Ret(Throw(s.b, m.b.err), Undef)
         ELSE Ret(s.b, m.v))

\* codec.decode(buffer), r being the outcome of the codec's first read.
DecodeRead(c, r) ==
  IF Failed(r.b) THEN Ret(r.b, Undef)
  ELSE CASE c.kind = "bool" -> Ret(r.b, Bool(r.v.big # Zero))
    [] c.kind = "int32" -> Ret(r.b, Num(asIntN(32, r.v.big)))
    [] c.kind = "uint32" -> Ret(r.b, Num(asUintN(32, r.v.big)))
    [] c.kind \in {"sint32", "enum"} -> ToNum(r)
    [] c.kind = "bytes" -> readBytes(r.b, ToLength(r.v.big))
    [] c.kind = "submessage" -> DecodeSlice(c, slice(r.b, ToLength(r.v.big)))
    [] OTHER -> r

CodecDecode(c, b) ==
  IF Failed(b) THEN Ret(b, Undef)
  ELSE CASE c.kind \in {"bool", "int32", "int64", "enum", "bytes", "submessage"} ->
              DecodeRead(c, readVarint(b))
    [] c.kind \in {"uint32", "uint64"} -> DecodeRead(c, readUvarint(b))
    [] c.kind \in {"sint32", "sint64"} -> DecodeRead(c, readZigzag(b))
    [] c.kind = "fixed32" -> readFixed32(b)
    [] c.kind = "sfixed32" -> readSfixed32(b)
    [] c.kind = "fixed64" -> readFixed64(b)
    [] c.kind = "sfixed64" -> readSfixed64(b)

\* A packed loop that stops after the first item of the block.
DecodePackedFirstItem(c, sub, old) ==
  IF remainingLength(sub) <= 0 \/ Failed(sub) THEN Ret(sub, old)
  ELSE Let(CodecDecode(c, sub), LAMBDA r :
         IF Failed(r.b) THEN Ret(r.b, old) ELSE Ret(r.b, pushValue(old, r.v)))

\* while (subbuffer.remainingLength > 0)
\*   pushValue(payload, fieldName, schema.codec.decode(subbuffer))
\* Yields [b, v]: the sub-buffer at the end and the new payload[fieldName].
DecodePacked(c, sub, old) ==
  IF remainingLength(sub) <= 0 \/ Failed(sub) THEN Ret(sub, old)
  ELSE Let(CodecDecode(c, sub), LAMBDA r :
         IF Failed(r.b) THEN Ret(r.b, old)
         ELSE DecodePacked(c, r.b, pushValue(old, r.v)))

\* The unknown-field branch of the loop: r is the outcome of readWireType.
DecodeUnknown(st, index, wiretype, r) ==
  IF Failed(r.b) THEN [st EXCEPT !.b = r.b]
  ELSE [st EXCEPT !.b = r.b,
          !.unknown = Put(st.unknown, index,
             pushValue(IF index \in DOMAIN st.unknown THEN st.unknown[index]
                       ELSE Undef,
                       Unk(index, wiretype, r.v)))]

\* The packed branch of the loop: s is the outcome of buffer.slice(length).
DecodeBlock(st, schema, s) ==
  IF Failed(s.b) THEN [st EXCEPT !.b = s.b]
  ELSE Let(DecodePacked(schema.codec, s.v, st.payload[schema.name]), LAMBDA p :
         [st EXCEPT !.b = IF Failed(p.b) THEN Throw(s.b, p.b.err) ELSE s.b,
                    !.payload[schema.name] = p.v])

\* The single-value branch of the loop: r is the outcome of codec.decode.
DecodeSingle(st, schema, r) ==
  IF Failed(r.b) THEN [st EXCEPT !.b = r.b]
  ELSE [st EXCEPT !.b = r.b,
          !.payload[schema.name] = pushValue(st.payload[schema.name], r.v)]

\* The body of the loop after readFieldHeader, whose outcome is h.
DecodeField(fields, st, h) ==
  IF Failed(h.b) THEN [st EXCEPT !.b = h.b]
  ELSE LET index == h.v[1]
           wiretype == h.v[2]
           i == FieldIndex(fields, index)
       IN IF i = 0
            THEN DecodeUnknown(st, index, wiretype, readWireType(h.b, wiretype))
          ELSE IF wiretype = LenType /\ CodecWiretype(fields[i].codec) # LenType
            THEN Let(readVarint(h.b), LAMBDA r :
                   IF Failed(r.b) THEN [st EXCEPT !.b = r.b]
                   ELSE DecodeBlock(st, fields[i], slice(r.b, ToLength(r.v.big))))
          ELSE DecodeSingle(st, fields[i], CodecDecode(fields[i].codec, h.b))

\* One turn of the loop of step 1 of Message.decode.
DecodeIter(fields, st) == DecodeField(fields, st, readFieldHeader(st.b))

\* A post-pass that fills in only the absent fields marked required.
DecodePostRequiredOnly(fields, payload, i) ==
  IF i > Len(fields) THEN [err |-> "", payload |-> payload]
  ELSE DecodePost(fields,
         [payload EXCEPT ![fields[i].name] =
            IF Truthy(@) \/ ~fields[i].required THEN @
            ELSE IF fields[i].repeated = "None" THEN CodecDefault(fields[i].codec)
            ELSE Arr(<<>>)],
         i + 1)

\* Step 2 of Message.decode, for field i: [err, payload].
DecodePost(fields, payload, i) ==
  IF i > Len(fields) THEN [err |-> "", payload |-> payload]
  ELSE
    LET schema == fields[i]
        v == payload[schema.name]
    IN IF ~Truthy(v) THEN
         DecodePost(fields,
           [payload EXCEPT ![schema.name] =
              IF schema.repeated = "None" THEN CodecDefault(schema.codec)
              ELSE Arr(<<>>)],
           i + 1)
       ELSE IF schema.repeated = "None" /\ IsArray(v) THEN
         [err |-> "DecodeError: field is repeated, but schema expects a single value",
          payload |-> payload]
       ELSE
         LET v1 == IF schema.repeated # "None" /\ ~IsArray(v) THEN Arr(<<v>>) ELSE v
             v2 == IF schema.required /\ ~Truthy(v1)
                     THEN (IF schema.repeated = "None"
                             THEN CodecDefault(schema.codec) ELSE Arr(<<>>))
                   ELSE v1
         IN DecodePost(fields, [payload EXCEPT ![schema.name] = v2], i + 1)

\* The value Message.decode returns: the payload with the unknown-fields object.
DecodeResult(payload, unknown) ==
  Obj([n \in DOMAIN payload \cup {UnknownFields} |->
         IF n = UnknownFields THEN UMap(unknown) ELSE payload[n]])

\* The end of Message.decode once the loop of step 1 is over: [b, v].
DecodeFinish(fields, st) ==
  IF Failed(st.b) THEN Ret(st.b, Undef)
  ELSE Let(DecodePost(fields, st.payload, 1), LAMBDA p :
         IF p.err # "" THEN Ret(Throw(st.b, p.err), Undef)
         ELSE Ret(st.b, DecodeResult(p.payload, st.unknown)))

\* Whether the loop of step 1 takes another turn.
DecodeMore(st) == ~Failed(st.b) /\ remainingLength(st.b) > 0

\* The loop of step 1.  The turn taken depends on the bytes and the offset
\* alone and every turn starts at an offset in 0..length-1, so a loop that ends
\* takes at most `length` turns with pairwise distinct offsets: one that is
\* still running after fuel = length + 1 turns never ends ("hang").
DecodeLoop(fields, st, fuel) ==
  IF ~DecodeMore(st) THEN st
  ELSE IF fuel = 0 THEN [st EXCEPT !.b = Throw(st.b, "hang")]
  ELSE DecodeLoop(fields, DecodeIter(fields, st), fuel - 1)

Message_decode(fields, b) ==
  DecodeFinish(fields,
    DecodeLoop(fields, NewDecode(b, fields), Max(Bytes_length(b), 0) + 1))

(***************************************************************************)
(* The programs checked.  Three runs of the library share the variables:   *)
(*   Spec      a sender measures and encodes a value, a receiver decodes   *)
(*             the bytes; a second sender encodes the same value under the *)
(*             other repetition mode and the receiver decodes that too;    *)
(*   SpecWire  a receiver decodes bytes that arrived from elsewhere, one   *)
(*             turn of the decode loop at a time, and re-encodes the       *)
(*             result;                                                     *)
(*   SpecBuf   a caller drives one ProtoBuffer through its public          *)
(*             operations.                                                 *)
(***************************************************************************)
VARIABLES
  pc,       \* where the run is
  fields,   \* the fields of the Message in use
  value,    \* the value handed to Message.encode
  wire,     \* SpecWire: the received fields, each the bytes of one field
  buffer,   \* the ProtoBuffer written to / operated on
  len,      \* what Message.length(value) returned
  dec,      \* SpecWire: [b, payload, unknown] of the running Message.decode
  iters,    \* SpecWire: turns of the decode loop taken; SpecBuf: operations
  result,   \* [b, v] as returned by Message.decode (b.err set if it threw)
  other,    \* Spec: the second sender's buffer; SpecBuf: the last slice
  result2,  \* Spec: Message.decode of the second sender's bytes
  thrown    \* SpecBuf: what the last operation threw, "" if nothing

vars == <<pc, fields, value, wire, buffer, len, dec, iters, result, other,
          result2, thrown>>

\* Longest item list enumerated in full.
MaxLen == 3
\* Length of the long item lists: 16 items of 8 bytes make a packed block of
\* 128 bytes, the first length whose framing varint takes two bytes.
LongLen == 16

RECURSIVE SeqsUpTo(_, _)
SeqsUpTo(S, n) ==
  IF n = 0 THEN {<<>>}
  ELSE LET T == SeqsUpTo(S, n - 1) IN
       T \cup {Append(t, x) : t \in {u \in T : Len(u) = n - 1}, x \in S}

Repeat(x, n) == [i \in 1..n |-> x]

\* The values of a codec's domain that the runs use.
RECURSIVE CodecDomain(_)
RECURSIVE MessageValues(_)
CodecDomain(c) ==
  CASE c.kind = "bool" -> {Bool(FALSE), Bool(TRUE)}
    [] c.kind \in {"int32", "sint32", "sfixed32"} -> {Num(W(0)), Num(W(1)), Num(W(-1))}
    [] c.kind \in {"uint32", "fixed32", "enum"} -> {Num(W(0)), Num(W(1)), Num(W(300))}
    [] c.kind \in {"int64", "sint64", "sfixed64"} -> {Big(W(0)), Big(W(1)), Big(W(-1))}
    [] c.kind \in {"uint64", "fixed64"} -> {Big(W(0)), Big(W(1)), Big(W(300))}
    [] c.kind = "bytes" -> {U8(<<>>), U8(<<7>>), U8(<<7, 9>>)}
    [] c.kind = "submessage" -> MessageValues(c.fields)

\* The values a field takes: a missing property, a value of the domain, or
\* for a repeated field every list of up to MaxLen items and the long lists.
FieldValues(f) ==
  IF f.repeated = "None" THEN {Undef} \cup CodecDomain(f.codec)
  ELSE {Undef}
       \cup {Arr(l) : l \in SeqsUpTo(CodecDomain(f.codec), MaxLen)}
       \cup {Arr(Repeat(x, LongLen)) : x \in CodecDomain(f.codec)}

RECURSIVE ObjectsOver(_, _)
ObjectsOver(fs, i) ==
  IF i > Len(fs) THEN {[n \in {} |-> Undef]}
  ELSE {Put(o, fs[i].name, v) : o \in ObjectsOver(fs, i + 1),
                                v \in FieldValues(fs[i])}

MessageValues(fs) == {Obj(o) : o \in ObjectsOver(fs, 1)}

Inner == <<Field("items", 1, Codec("int32"), "Default")>>

\* The messages of Spec.
Schemas ==
  { <<Field("items", 1, Codec("int32"), "Default")>>,
    <<Field("items", 1, Codec("int32"), "Expanded")>>,
    <<Field("flags", 2, Codec("bool"), "Default")>>,
    <<Field("stamps", 3, Codec("fixed64"), "Default")>>,
    <<Field("sizes", 4, Codec("fixed32"), "Expanded")>>,
    <<Field("deltas", 5, Codec("sint64"), "Default")>>,
    <<Field("value", 1, Codec("int32"), "None"),
      Field("data", 2, Codec("bytes"), "None")>>,
    <<Field("sub", 1, Submessage(Inner), "None"),
      Field("on", 2, Codec("bool"), "None")>> }

\* The same fields declared under the other repetition mode.
Flip(fs) ==
  [i \in 1..Len(fs) |->
     [fs[i] EXCEPT !.repeated = CASE @ = "Default" -> "Expanded"
                                  [] @ = "Expanded" -> "Default"
                                  [] OTHER -> @]]

\* new ProtoBuffer()
Fresh == NewProtoBuffer(<<>>, <<>>)

\* new ProtoBuffer(b.toShrunk().bytes()) read from the start: what a receiver
\* gets of what was written to b.
Received(b) == NewProtoBuffer(Bytes_toUint8Array(toShrunk(b)), <<>>)

NoDecode == [b |-> Fresh, payload |-> <<>>, unknown |-> <<>>]
NoResult == Ret(Fresh, Undef)

Init ==
  /\ pc = "start"
  /\ fields \in Schemas
  /\ value \in MessageValues(fields)
  /\ wire = <<>>
  /\ buffer = Fresh
  /\ len = 0
  /\ dec = NoDecode
  /\ iters = 0
  /\ result = NoResult
  /\ other = Fresh
  /\ result2 = NoResult
  /\ thrown = ""

\* const n = message.length(value)
Length ==
  /\ pc = "start"
  /\ len' = Message_length(fields, value)
  /\ pc' = "measured"
  /\ UNCHANGED <<fields, value, wire, buffer, dec, iters, result, other,
                 result2, thrown>>

\* const buffer = message.encode(value)
Encode ==
  /\ pc = "measured"
  /\ buffer' = Message_encode(fields, value, buffer)
  /\ pc' = "encoded"
  /\ UNCHANGED <<fields, value, wire, len, dec, iters, result, other,
                 result2, thrown>>

\* message.decode(bytes)
Decode ==
  /\ pc = "encoded"
  /\ ~Failed(buffer)
  /\ result' = Message_decode(fields, Received(buffer))
  /\ pc' = "decoded"
  /\ UNCHANGED <<fields, value, wire, buffer, len, dec, iters, other,
                 result2, thrown>>

\* The second sender: the same fields under the other repetition mode.
EncodeOther ==
  /\ pc = "decoded"
  /\ other' = Message_encode(Flip(fields), value, other)
  /\ pc' = "encoded2"
  /\ UNCHANGED <<fields, value, wire, buffer, len, dec, iters, result,
                 result2, thrown>>

DecodeOther ==
  /\ pc = "encoded2"
  /\ ~Failed(other)
  /\ result2' = Message_decode(fields, Received(other))
  /\ pc' = "done"
  /\ UNCHANGED <<fields, value, wire, buffer, len, dec, iters, result,
                 other, thrown>>

Next == Length \/ Encode \/ Decode \/ EncodeOther \/ DecodeOther

Spec == Init /\ [][Next]_vars

(***************************************************************************)
(* Properties of Spec.                                                     *)
(***************************************************************************)
\* The fields of the message that are repeated with a codec of wire type
\* VARINT, I32 or I64.
RepeatedScalars ==
  {i \in 1..Len(fields) :
     fields[i].repeated # "None" /\ CodecWiretype(fields[i].codec) # LenType}

\* C1: for a repeated scalar field, packed or expanded, and every item list
\* (items equal to the codec default included), Message.decode of the bytes
\* Message.encode wrote returns for that field an array of exactly the same
\* items in the same order.
C1_RepeatedRoundTrip ==
  pc = "decoded" =>
    \A i \in RepeatedScalars :
      IsArray(GetProp(value, fields[i].name)) =>
        /\ ~Failed(result.b)
        /\ GetProp(result.v, fields[i].name) = GetProp(value, fields[i].name)

\* C2: Message.length(value) equals the number of bytes Message.encode(value)
\* writes into an empty buffer, whatever the modes of the fields and the byte
\* length of the packed blocks and the nested submessages.
C2_LengthIsBytesWritten ==
  (pc = "encoded" /\ ~Failed(buffer)) =>
    (len = buffer.offset /\ len = buffer.written)

\* A value whose every declared field is missing or equal to its default: an
\* empty array for a repeated field, an all-default object for a submessage,
\* the codec's default otherwise.
RECURSIVE AllDefault(_, _)
AllDefault(fs, v) ==
  /\ v.k = "obj"
  /\ \A i \in 1..Len(fs) :
       \/ GetProp(v, fs[i].name) = Undef
       \/ IF fs[i].repeated # "None" THEN GetProp(v, fs[i].name) = Arr(<<>>)
          ELSE IF fs[i].codec.kind = "submessage"
            THEN AllDefault(fs[i].codec.fields, GetProp(v, fs[i].name))
          ELSE GetProp(v, fs[i].name) = CodecDefault(fs[i].codec)

\* C5: encoding a value in which every declared field is missing or equal to
\* its default writes zero bytes: offset and writtenLength stay unchanged.
C5_DefaultElision ==
  (pc = "encoded" /\ AllDefault(fields, value)) =>
    (~Failed(buffer) /\ buffer.offset = 0 /\ buffer.written = 0)

\* C7: for a repeated field whose codec has wire type VARINT, I32 or I64 and
\* every item list, decoding the packed encoding and decoding the expanded
\* encoding of the list give the same field value, whichever repetition mode
\* the decoding schema declares.
C7_PackedExpandedSame ==
  pc = "done" =>
    \A i \in RepeatedScalars :
      /\ ~Failed(result.b)
      /\ ~Failed(result2.b)
      /\ GetProp(result.v, fields[i].name) = GetProp(result2.v, fields[i].name)

\* Both encodings of a list of two or more items were decoded, the encodings
\* differ and both decoded to the list.
C7_Witness ==
  /\ pc = "done"
  /\ ~Failed(result.b) /\ ~Failed(result2.b)
  /\ Received(buffer).buf # Received(other).buf
  /\ \E i \in RepeatedScalars :
       /\ IsArray(GetProp(value, fields[i].name))
       /\ Len(GetProp(value, fields[i].name).arr) >= 2
       /\ GetProp(result.v, fields[i].name) = GetProp(value, fields[i].name)
       /\ GetProp(result2.v, fields[i].name) = GetProp(value, fields[i].name)

(***************************************************************************)
(* SpecWire: a receiver decodes bytes that arrived from elsewhere, one     *)
(* turn of the decode loop at a time, and re-encodes the result.           *)
(***************************************************************************)
\* Most fields a received message holds.
MaxFields == 2

\* The message of the receiver: fields 1 to 3, field 4 and 5 are unknown to
\* it.  In the second variant the fields are marked required.
WireSchemas ==
  { <<Field("value", 1, Codec("int32"), "None"),
      Field("items", 2, Codec("int32"), "Default"),
      Field("data", 3, Codec("bytes"), "None")>>,
    <<Field("value", 1, Codec("int32"), "None"),
      Required(Field("items", 2, Codec("int32"), "Default")),
      Required(Field("data", 3, Codec("bytes"), "None"))>> }

\* Complete fields as they arrive: header, then the value bytes.
GoodFields ==
  { <<8, 0>>, <<8, 5>>,         \* field 1, VARINT: 0 and 5
    <<10, 2, 3, 4>>,            \* field 1, a LEN block of the items 3 and 4
    <<16, 0>>, <<16, 7>>,       \* field 2, VARINT: one item each
    <<18, 2, 0, 7>>,            \* field 2, a LEN block of the items 0 and 7
    <<26, 1, 9>>,               \* field 3, LEN: one byte
    <<32, 5>>,                  \* field 4, VARINT
    <<37, 1, 2, 3, 4>>,         \* field 4, I32
    <<41, 1, 2, 3, 4, 5, 6, 7, 8>>,  \* field 5, I64
    <<42, 2, 7, 9>> }           \* field 5, LEN: two bytes

\* Malformed fields: a header without its value, and field 2 as a LEN block
\* whose length varint is the 64-bit two's complement of -11, the negative of
\* the 11 bytes the header and the varint take.
BadFields ==
  { <<8>>,
    <<18, 245, 255, 255, 255, 255, 255, 255, 255, 255, 1>> }

\* Fields whose header has a group wire type: field 1 (declared) as SGROUP
\* and as EGROUP, each followed by one byte, and field 4 (unknown) as SGROUP
\* and as EGROUP.
GroupFields == { <<11, 5>>, <<12, 5>>, <<35>>, <<36>> }

RECURSIVE Flatten(_)
Flatten(ss) == IF ss = <<>> THEN <<>> ELSE Head(ss) \o Flatten(Tail(ss))

InitWire ==
  /\ pc = "received"
  /\ fields \in WireSchemas
  /\ wire \in SeqsUpTo(GoodFields \cup BadFields \cup GroupFields, MaxFields)
  /\ value = Undef
  /\ buffer = Fresh
  /\ len = 0
  /\ dec = NoDecode
  /\ iters = 0
  /\ result = NoResult
  /\ other = Fresh
  /\ result2 = NoResult
  /\ thrown = ""

\* Message.decode(bytes) up to its loop.
DecodeStart ==
  /\ pc = "received"
  /\ dec' = NewDecode(NewProtoBuffer(Flatten(wire), <<>>), fields)
  /\ iters' = 0
  /\ pc' = "decoding"
  /\ UNCHANGED <<fields, value, wire, buffer, len, result, other, result2,
                 thrown>>

\* One turn of the loop of step 1.  The turns are counted up to one more than
\* there are input bytes.
DecodeStep ==
  /\ pc = "decoding"
  /\ DecodeMore(dec)
  /\ iters <= Len(Flatten(wire))
  /\ dec' = DecodeIter(fields, dec)
  /\ iters' = iters + 1
  /\ UNCHANGED <<pc, fields, value, wire, buffer, len, result, other, result2,
                 thrown>>

\* The loop is over (or threw): step 2 and the return.
DecodeEnd ==
  /\ pc = "decoding"
  /\ ~DecodeMore(dec)
  /\ result' = DecodeFinish(fields, dec)
  /\ pc' = "decoded"
  /\ UNCHANGED <<fields, value, wire, buffer, len, dec, iters, other, result2,
                 thrown>>

\* message.encode(decoded)
Reencode ==
  /\ pc = "decoded"
  /\ ~Failed(result.b)
  /\ value' = result.v
  /\ buffer' = Message_encode(fields, result.v, buffer)
  /\ pc' = "reencoded"
  /\ UNCHANGED <<fields, wire, len, dec, iters, result, other, result2,
                 thrown>>

NextWire == DecodeStart \/ DecodeStep \/ DecodeEnd \/ Reencode

SpecWire == InitWire /\ [][NextWire]_vars

(***************************************************************************)
(* Properties of SpecWire.                                                 *)
(***************************************************************************)
\* The index in the header of a received field.
IndexOf(f) == f[1] \div 8

Declared == {fields[i].index : i \in 1..Len(fields)}

\* The bytes e occur in bytes, contiguously.
Occurs(e, bytes) ==
  \E k \in 0..(Len(bytes) - Len(e)) : SubSeq(bytes, k + 1, k + Len(e)) = e

\* C3: when bytes are decoded with a schema that does not declare some index
\* and the decoded value is re-encoded with the same schema, the output holds,
\* for each unknown field of wire type VARINT, I32, I64 or LEN, the header and
\* the value bytes that were read (the length prefix and the payload of a LEN
\* field included).
C3_UnknownRoundTrip ==
  (pc = "reencoded" /\ ~Failed(buffer)) =>
    \A j \in 1..Len(wire) :
      IndexOf(wire[j]) \notin Declared =>
        Occurs(wire[j], Bytes_toUint8Array(toShrunk(buffer)))

\* C4: Message.decode ends on every finite input, with a value or an error,
\* and its loop takes at most as many turns as there are input bytes.
C4_DecodeBounded == iters <= Len(Flatten(wire))

RECURSIVE Occurrences(_, _)
Occurrences(ss, x) ==
  IF ss = <<>> THEN 0
  ELSE Occurrences(Tail(ss), x)
       + (IF IndexOf(Head(ss)) # x THEN 0
          ELSE IF Head(ss)[1] % 8 = LenType THEN Head(ss)[2] ELSE 1)

\* C8: if the wire holds two or more occurrences of a field declared
\* non-repeated (or a LEN block of two or more items for it), Message.decode
\* fails with DecodeError and returns no value, whatever the values are.
C8_DuplicateRejected ==
  (pc = "decoded" /\ \A j \in 1..Len(wire) : wire[j] \in GoodFields) =>
    \A i \in 1..Len(fields) :
      (fields[i].repeated = "None"
         /\ CodecWiretype(fields[i].codec) # LenType
         /\ Occurrences(wire, fields[i].index) >= 2) =>
        (Failed(result.b) /\ SubSeq(result.b.err, 1, 11) = "DecodeError")

(***************************************************************************)
(* SpecBuf: a caller drives one ProtoBuffer through its public operations. *)
(* pc names the last operation, thrown what it threw; an operation that    *)
(* throws leaves the buffer as it was when the exception left it.          *)
(* ProtoBuffer.slice hands the caller the sub-buffer, which it goes on     *)
(* with; `other` keeps the buffer it was cut from.                         *)
(***************************************************************************)
\* Longest array a buffer is created over.
MaxCap == 3
\* Most operations of a run.
MaxOps == 2

\* new Bytes(new Uint8Array(n), [s, e]) for the ranges the constructor accepts.
Borrowed ==
  {NewProtoBuffer(Zeros(n), <<s, e>>) :
     n \in 1..MaxCap, s \in 0..MaxCap, e \in 0..MaxCap}

InitialBuffers ==
  {Fresh}
  \cup {NewProtoBuffer(Zeros(n), <<>>) : n \in 1..MaxCap}
  \cup {b \in Borrowed : ViewOk(b.buf, b.range[1], b.range[2])}

InitBuf ==
  /\ pc = "new"
  /\ buffer \in InitialBuffers
  /\ fields = <<>>
  /\ value = Undef
  /\ wire = <<>>
  /\ len = 0
  /\ dec = NoDecode
  /\ iters = 0
  /\ result = NoResult
  /\ other = Fresh
  /\ result2 = NoResult
  /\ thrown = ""

\* The caller's view after an operation that left the buffer as b.
Done(op, b) ==
  /\ iters < MaxOps
  /\ iters' = iters + 1
  /\ pc' = op
  /\ buffer' = [b EXCEPT !.err = ""]
  /\ thrown' = b.err
  /\ UNCHANGED <<fields, value, wire, len, dec, result, result2>>

WriteFieldHeader ==
  \E index \in {1, 32} :
    Done("writeFieldHeader", writeFieldHeader(buffer, index, Varint))
    /\ UNCHANGED other

WriteVarint ==
  \E v \in {W(1), W(300)} :
    Done("writeVarint", writeVarint(buffer, v)) /\ UNCHANGED other

WriteBytes ==
  Done("writeBytes", writeBytes(buffer, U8(<<7, 9>>))) /\ UNCHANGED other

WriteFixed32 ==
  Done("writeFixed32", writeFixed32(buffer, W(1))) /\ UNCHANGED other

WriteFixed64 ==
  Done("writeFixed64", writeFixed64(buffer, W(1))) /\ UNCHANGED other

ReadVarint == Done("readVarint", readVarint(buffer).b) /\ UNCHANGED other

ReadFixed32 == Done("readFixed32", readFixed32(buffer).b) /\ UNCHANGED other

ReadFixed64 == Done("readFixed64", readFixed64(buffer).b) /\ UNCHANGED other

ReadFieldHeader ==
  Done("readFieldHeader", readFieldHeader(buffer).b) /\ UNCHANGED other

ReadBytes ==
  \E n \in {0 - 1, 1} :
    Done("readBytes", readBytes(buffer, n).b) /\ UNCHANGED other

Seek ==
  \E offset \in {0 - 1, 0, 1, MaxCap + 1} :
    Done("seek", seek(buffer, offset)) /\ UNCHANGED other

\* const sub = buffer.slice(n): the caller goes on with sub.
Slice ==
  \E n \in {0, 1} :
    IF Failed(slice(buffer, n).b)
      THEN Done("slice", slice(buffer, n).b) /\ UNCHANGED other
    ELSE Done("slice", slice(buffer, n).v) /\ other' = slice(buffer, n).b

ToShrunk == Done("toShrunk", toShrunk(buffer)) /\ UNCHANGED other

NextBuf ==
  \/ WriteFieldHeader \/ WriteVarint \/ WriteBytes \/ WriteFixed32
  \/ WriteFixed64 \/ ReadVarint \/ ReadFixed32 \/ ReadBytes \/ Seek \/ Slice
  \/ ToShrunk \/ ReadFixed64 \/ ReadFieldHeader

SpecBuf == InitBuf /\ [][NextBuf]_vars

(***************************************************************************)
(* Properties of SpecBuf.                                                  *)
(***************************************************************************)
WriteOps ==
  {"writeFieldHeader", "writeVarint", "writeBytes", "writeFixed32",
   "writeFixed64"}

\* C9: a write on a ProtoBuffer over a borrowed slice that would place a byte
\* outside the range fails with a buffer-overflow error, and no byte of the
\* underlying array outside the range is modified: a step on such a buffer
\* leaves the bytes outside its range as they were, and a write that did not
\* throw ends inside the range.
C9_BorrowedWriteStaysInside ==
  [][buffer.range # <<>> =>
       /\ \A i \in 1..Len(buffer.buf) :
            (i <= RangeStart(buffer) \/ i > RangeEnd(buffer)) =>
              buffer'.buf[i] = buffer.buf[i]
       /\ (pc' \in WriteOps /\ thrown' = "") =>
            (buffer'.offset >= 0 /\ buffer'.offset <= Bytes_length(buffer))]_vars

\* C10: in every state reached through the public operations, on owned
\* buffers and on borrowed slices, 0 <= offset <= capacity and
\* writtenLength <= capacity, capacity being the length of the region the
\* buffer is restricted to.
C10_OffsetWithinCapacity ==
  \A b \in {buffer, other} :
    /\ 0 <= b.offset
    /\ b.offset <= Bytes_length(b)
    /\ b.written <= Bytes_length(b)
(***************************************************************************)
(* SpecScalar: a caller writes one field header, one varint or one zigzag  *)
(* varint to a new ProtoBuffer, seeks back and reads it.  `wire` holds the *)
(* <<index, wiretype>> of a header, `value` the integer of a varint, `len` *)
(* what the length predictor returned for it and `iters` what it returned  *)
(* for -value - 1.                                                         *)
(***************************************************************************)
\* Longest magnitude of the integers written, in bits.
SampleBits == 64
\* Largest field index tried; the indexes above 31 are refused.
MaxIndex == 33

\* 2^k - 1 and 2^k, and their negatives, for every k up to SampleBits.
SampleInts ==
  UNION {{Wide(FALSE, Repeat(1, k)), Wide(TRUE, Repeat(1, k)),
          Wide(FALSE, Zeros(k) \o <<1>>), Wide(TRUE, Zeros(k) \o <<1>>)} :
         k \in 0..(SampleBits - 1)}
  \cup {W(300), W(-300), W(2), W(-2)}

\* -w - 1 (the bitwise complement ~w).
Complement(w) ==
  IF w.neg THEN Wide(FALSE, DecBits(w.mag)) ELSE Wide(TRUE, IncMag(w.mag))

InitScalar ==
  /\ pc = "idle"
  /\ \/ (value \in {Big(w) : w \in SampleInts} /\ wire = <<>>)
     \/ (value = Undef /\ wire \in (0..MaxIndex) \X (Varint..I32))
  /\ fields = <<>>
  /\ buffer = Fresh
  /\ len = 0
  /\ dec = NoDecode
  /\ iters = 0
  /\ result = NoResult
  /\ other = Fresh
  /\ result2 = NoResult
  /\ thrown = ""

\* buffer.writeFieldHeader(index, wiretype)
PutHeader ==
  /\ pc = "idle" /\ wire # <<>>
  /\ buffer' = writeFieldHeader(buffer, wire[1], wire[2])
  /\ pc' = "header"
  /\ UNCHANGED <<fields, value, wire, len, dec, iters, result, other, result2,
                 thrown>>

\* buffer.seek(0).readFieldHeader()
GetHeader ==
  /\ pc = "header" /\ ~Failed(buffer)
  /\ result' = readFieldHeader(seek(buffer, 0))
  /\ pc' = "headerRead"
  /\ UNCHANGED <<fields, value, wire, buffer, len, dec, iters, other, result2,
                 thrown>>

\* ProtoBuffer.varintLength(v); buffer.writeVarint(v)
PutVarint ==
  /\ pc = "idle" /\ wire = <<>>
  /\ len' = varintLength(value.big)
  /\ buffer' = writeVarint(buffer, value.big)
  /\ pc' = "varint"
  /\ UNCHANGED <<fields, value, wire, dec, iters, result, other, result2,
                 thrown>>

\* buffer.seek(0).readVarint()
GetVarint ==
  /\ pc = "varint" /\ ~Failed(buffer)
  /\ result' = readVarint(seek(buffer, 0))
  /\ pc' = "varintRead"
  /\ UNCHANGED <<fields, value, wire, buffer, len, dec, iters, other, result2,
                 thrown>>

\* ProtoBuffer.zigzagLength(v), ProtoBuffer.zigzagLength(-v - 1);
\* buffer.writeZigzag(v)
PutZigzag ==
  /\ pc = "idle" /\ wire = <<>>
  /\ len' = zigzagLength(value.big)
  /\ iters' = zigzagLength(Complement(value.big))
  /\ buffer' = writeZigzag(buffer, value.big)
  /\ pc' = "zigzag"
  /\ UNCHANGED <<fields, value, wire, dec, result, other, result2, thrown>>

\* buffer.seek(0).readZigzag()
GetZigzag ==
  /\ pc = "zigzag" /\ ~Failed(buffer)
  /\ result' = readZigzag(seek(buffer, 0))
  /\ pc' = "zigzagRead"
  /\ UNCHANGED <<fields, value, wire, buffer, len, dec, iters, other, result2,
                 thrown>>

NextScalar ==
  PutHeader \/ GetHeader \/ PutVarint \/ GetVarint \/ PutZigzag \/ GetZigzag

SpecScalar == InitScalar /\ [][NextScalar]_vars

(***************************************************************************)
(* Properties of SpecScalar.                                               *)
(***************************************************************************)
\* The varint encoding of a natural number: 7 bits a byte, least significant
\* first, the continuation bit on every byte but the last.
VarintOf(n) == IF n = 0 THEN <<0>> ELSE VarintGroups(NatBits(n))

\* The bytes written to the buffer so far.
Written(b) == SubSeq(b.buf, RangeStart(b) + 1, RangeStart(b) + b.written)

\* w lies in [-2^63, 2^63).
InInt64(w) ==
  \/ Len(w.mag) <= 63
  \/ (w.neg /\ w.mag = Zeros(63) \o <<1>>)

\* C11: for every index writeFieldHeader accepts and every wire type, the
\* bytes written are exactly the varint encoding of (index << 3) | wiretype.
C11_HeaderIsVarint ==
  (pc = "header" /\ ~Failed(buffer)) =>
    Written(buffer) = VarintOf(wire[1] * 8 + wire[2])

\* C12: for every v in [-2^63, 2^63), writeVarint(v), a seek back and
\* readVarint return v; the bytes written number varintLength(v), which is 1
\* for zero and 10 for every negative v.
C12_VarintRoundTrip ==
  (pc = "varintRead" /\ InInt64(value.big)) =>
    /\ ~Failed(result.b)
    /\ result.v = value
    /\ buffer.written = len /\ buffer.offset = len
    /\ result.b.offset = len
    /\ (value.big = Zero => len = 1)
    /\ (value.big.neg => len = 10)

\* -2^63 was written in 10 bytes and read back.
C12_Witness ==
  /\ pc = "varintRead"
  /\ value.big = Wide(TRUE, Zeros(63) \o <<1>>)
  /\ result.v = value
  /\ len = 10 /\ Len(Written(buffer)) = 10

\* C13: for every v in [-2^63, 2^63), writeZigzag(v), a seek back and
\* readZigzag return v, the bytes written number zigzagLength(v), and
\* zigzagLength(v) = zigzagLength(-v - 1).
C13_ZigzagRoundTrip ==
  (pc = "zigzagRead" /\ InInt64(value.big)) =>
    /\ ~Failed(result.b)
    /\ result.v = value
    /\ buffer.written = len /\ buffer.offset = len
    /\ result.b.offset = len
    /\ iters = len

\* -2^63 was written as the zigzag value 2^64 - 1, in 10 bytes, and read back.
C13_Witness ==
  /\ pc = "zigzagRead"
  /\ value.big = Wide(TRUE, Zeros(63) \o <<1>>)
  /\ result.v = value
  /\ Written(buffer) = Repeat(255, 9) \o <<1>>
  /\ len = 10 /\ iters = 10
(***************************************************************************)
(* Further properties of SpecWire: the order of the re-encoded output.     *)
(***************************************************************************)
\* The received fields whose index the message does not declare, in wire
\* order.
UnknownPart == SelectSeq(wire, LAMBDA f : IndexOf(f) \notin Declared)

\* The value restricted to the property `name`.
OnlyField(v, name) == Obj([n \in {name} |-> GetProp(v, name)])

\* What Message.encode writes for each declared field taken alone, joined in
\* declaration order.
DeclaredPart ==
  Flatten([i \in 1..Len(fields) |->
    Written(Message_encode(<<fields[i]>>, OnlyField(value, fields[i].name),
                           Fresh))])

\* C14: the output of Message.encode lists the declared fields in declaration
\* order and after them the attached unknown fields in the order in which
\* decode inserted them (their wire order), whatever the numeric order of
\* their indexes.  Stated for well-formed fields whose unknown ones have wire
\* type VARINT, I32 or I64 and pairwise distinct indexes.
C14_EncodeOrder ==
  (/\ pc = "reencoded" /\ ~Failed(buffer)
   /\ \A j \in 1..Len(wire) : wire[j] \in GoodFields
   /\ \A j \in 1..Len(UnknownPart) :
        /\ UnknownPart[j][1] % 8 # LenType
        /\ \A k \in 1..Len(UnknownPart) :
             j # k => IndexOf(UnknownPart[j]) # IndexOf(UnknownPart[k]))
  => Written(buffer) = DeclaredPart \o Flatten(UnknownPart)

\* C17: decoding fails, returning no value, whenever a field header of wire
\* type SGROUP or EGROUP is met, whether its index is declared or unknown;
\* writeField with a group wire type fails as well.  Stated for a group field
\* that follows well-formed fields only, so that the loop reaches its header.
C17_GroupsRejected ==
  /\ (/\ pc = "decoded"
      /\ \E j \in 1..Len(wire) :
           /\ wire[j] \in GroupFields
           /\ \A i \in 1..(j - 1) : wire[i] \in GoodFields)
     => Failed(result.b)
  /\ \A t \in {SGroup, EGroup} : Failed(writeField(Fresh, 4, t, Undef))

\* The {index, wiretype, value} entry decode makes of a received unknown field
\* of wire type VARINT, I32 or I64.
EntryOf(f) ==
  Unk(IndexOf(f), f[1] % 8,
      readWireType(NewProtoBuffer(Tail(f), <<>>), f[1] % 8).v)

\* C15: when the wire carries two or more unknown fields of one index, decode
\* keeps all of them under that index as {index, wiretype, value} entries in
\* wire order, and re-encoding the decoded value emits one header and value
\* for each of them.  Stated for a wire whose unknown fields all have the same
\* index and a wire type VARINT, I32 or I64.
C15_DuplicateUnknownKept ==
  (/\ pc = "reencoded" /\ ~Failed(buffer)
   /\ Len(UnknownPart) >= 2
   /\ \A j \in 1..Len(UnknownPart) :
        /\ UnknownPart[j][1] % 8 # LenType
        /\ IndexOf(UnknownPart[j]) = IndexOf(UnknownPart[1]))
  => /\ GetProp(value, UnknownFields).umap[IndexOf(UnknownPart[1])]
          = Arr([j \in 1..Len(UnknownPart) |-> EntryOf(UnknownPart[j])])
     /\ Written(buffer) = DeclaredPart \o Flatten(UnknownPart)
(***************************************************************************)
(* Further properties of SpecBuf: reads past the end.                      *)
(***************************************************************************)
\* Fewer than n bytes remain between the offset and the end of the region.
Short(b, n) == b.offset >= 0 /\ remainingLength(b) < n

\* Every byte from the offset to the end of the region has its continuation
\* bit set.
Unfinished(b) ==
  /\ b.offset >= 0
  /\ \A i \in b.offset..(Bytes_length(b) - 1) : Bytes_get(b, i) >= 128

\* C16: a read that needs more bytes than remain between the offset and the
\* end of the region (a varint whose continuation bit is still set at the
\* end, a 4- or 8-byte fixed scalar, readBytes(1), a field header) fails with
\* a buffer-underflow error and leaves the buffer as it was.
C16_ReadPastEndUnderflows ==
  [][(\/ pc' = "readVarint" /\ Unfinished(buffer)
      \/ pc' = "readFixed32" /\ Short(buffer, 4)
      \/ pc' = "readFixed64" /\ Short(buffer, 8)
      \/ pc' = "readFieldHeader" /\ Short(buffer, 1)
      \/ /\ pc' = "readBytes" /\ Short(buffer, 1)
         /\ thrown' = readBytes(buffer, 1).b.err
         /\ buffer'.offset = readBytes(buffer, 1).b.offset)
     => thrown' = "Error: Buffer underflow"]_vars
(***************************************************************************)
(* transformCodec(codec, sub) (src/src/codecs.ts): a codec                 *)
(*   [kind |-> "transform", fields |-> <<>>, codec, sub]                   *)
(* over an inner codec, sub naming the TransformParameters.  The           *)
(* parameters used are bijections that do not commute:                     *)
(*   "negate"     encode v -> -v,        decode b -> -b                    *)
(*   "increment"  encode v -> v + 1,     decode b -> b - 1                 *)
(*   "toBigint"   encode v -> BigInt(v), decode b -> Number(b)             *)
(***************************************************************************)
Negate(w) == Wide(~w.neg, w.mag)

Succ(w) ==
  IF w.neg THEN Wide(TRUE, DecBits(w.mag)) ELSE Wide(FALSE, IncMag(w.mag))

Pred(w) == Negate(Succ(Negate(w)))

\* f applied to a number or a bigint, keeping its type.
MapInt(x, F(_)) ==
  CASE x.k = "num" -> Num(F(x.num))
    [] x.k = "big" -> Big(F(x.big))
    [] OTHER -> x

\* sub.encode(value)
SubEncode(sub, x) ==
  CASE sub = "negate" -> MapInt(x, Negate)
    [] sub = "increment" -> MapInt(x, Succ)
    [] sub = "toBigint" -> IF x.k \in {"num", "big"} THEN Big(Payload(x)) ELSE x

\* sub.decode(value)
SubDecode(sub, x) ==
  CASE sub = "negate" -> MapInt(x, Negate)
    [] sub = "increment" -> MapInt(x, Pred)
    [] sub = "toBigint" -> IF x.k \in {"num", "big"} THEN Num(Payload(x)) ELSE x

transformCodec(codec, sub) ==
  [kind |-> "transform", fields |-> <<>>, codec |-> codec, sub |-> sub]

\* get wiretype() { return codec.wiretype; }
RECURSIVE Transform_wiretype(_)
Transform_wiretype(c) ==
  IF c.kind = "transform" THEN Transform_wiretype(c.codec) ELSE CodecWiretype(c)

\* An encode that hands the value to the inner codec as it is.
RECURSIVE Transform_encodeAsIs(_, _, _)
Transform_encodeAsIs(c, val, b) ==
  IF c.kind = "transform" THEN Transform_encodeAsIs(c.codec, val, b)
  ELSE CodecEncode(c, val, b)

\* encode(value, buffer) { codec.encode(sub.encode(value), buffer); }
RECURSIVE Transform_encode(_, _, _)
Transform_encode(c, val, b) ==
  IF c.kind = "transform"
    THEN Transform_encode(c.codec, SubEncode(c.sub, val), b)
  ELSE CodecEncode(c, val, b)

\* sub.decode applied to the outcome r of the inner codec's decode.
DecodedBy(sub, r) == IF Failed(r.b) THEN r ELSE Ret(r.b, SubDecode(sub, r.v))

\* decode(buffer) { return sub.decode(codec.decode(buffer)); }
RECURSIVE Transform_decode(_, _)
Transform_decode(c, b) ==
  IF c.kind = "transform" THEN DecodedBy(c.sub, Transform_decode(c.codec, b))
  ELSE CodecDecode(c, b)

\* length(value) { return codec.length(sub.encode(value)); }
RECURSIVE Transform_length(_, _)
Transform_length(c, val) ==
  IF c.kind = "transform" THEN Transform_length(c.codec, SubEncode(c.sub, val))
  ELSE CodecLength(c, val)
(***************************************************************************)
(* Message.transform(params) and MessageTransformer (src/src/message.ts).  *)
(* A message is [type |-> "message", fields] or                            *)
(* [type |-> "transformer", parent, params]; params names the              *)
(* TransformParameters, which rebuild the value as a new object            *)
(*   { value: sub(v.value), data: v.data }                                 *)
(* with sub one of the mappings above.                                     *)
(***************************************************************************)
MessageOf(fs) == [type |-> "message", fields |-> fs]

\* The object rebuilt from the declared properties of v, F applied to `value`.
Rebuilt(v, F(_)) ==
  IF v.k # "obj" THEN v
  ELSE Obj([n \in DOMAIN v.obj \ {UnknownFields} |->
              IF n = "value" THEN F(v.obj[n]) ELSE v.obj[n]])

\* params.encode(value)
ParamsEncode(params, v) == Rebuilt(v, LAMBDA x : SubEncode(params, x))

\* params.decode(payload)
ParamsDecode(params, v) == Rebuilt(v, LAMBDA x : SubDecode(params, x))

\* transform(params) { return new MessageTransformer(this, params); }
Message_transform(m, params) ==
  [type |-> "transformer", parent |-> m, params |-> params]

\* Object.assign(target, { [UnknownFields]: source[UnknownFields] })
AssignUnknown(target, source) ==
  Obj(Put(target.obj, UnknownFields, GetProp(source, UnknownFields)))

\* encode(value, buffer) { return _parent.encode(_params.encode(value), buffer); }
RECURSIVE MessageTransformer_encode(_, _, _)
MessageTransformer_encode(m, val, b) ==
  IF m.type = "transformer"
    THEN MessageTransformer_encode(m.parent, ParamsEncode(m.params, val), b)
  ELSE Message_encode(m.fields, val, b)

\* A decode that returns what params.decode returned.
RECURSIVE MessageTransformer_decodeBare(_, _)
MessageTransformer_decodeBare(m, b) ==
  IF m.type = "transformer"
    THEN Let(MessageTransformer_decodeBare(m.parent, b), LAMBDA r :
           IF Failed(r.b) THEN r ELSE Ret(r.b, ParamsDecode(m.params, r.v)))
  ELSE Message_decode(m.fields, b)

\* decode(buffer) {
\*   const payload = _parent.decode(buffer);
\*   return Object.assign(_params.decode(payload),
\*                        { [UnknownFields]: payload[UnknownFields] }); }
RECURSIVE MessageTransformer_decode(_, _)
MessageTransformer_decode(m, b) ==
  IF m.type = "transformer"
    THEN Let(MessageTransformer_decode(m.parent, b), LAMBDA r :
           IF Failed(r.b) THEN r
           ELSE Ret(r.b, AssignUnknown(ParamsDecode(m.params, r.v), r.v)))
  ELSE Message_decode(m.fields, b)

\* length(value) { return _parent.length(_params.encode(value)); }
RECURSIVE MessageTransformer_length(_, _)
MessageTransformer_length(m, val) ==
  IF m.type = "transformer"
    THEN MessageTransformer_length(m.parent, ParamsEncode(m.params, val))
  ELSE Message_length(m.fields, val)

(***************************************************************************)
(* SpecTransform: a sender measures and encodes a value through a          *)
(* transformed field codec, or through a transformed message, and a        *)
(* receiver decodes the bytes, followed in the message case by fields the  *)
(* message does not declare.  `fields` holds the one field whose codec is  *)
(* the transformed codec, or the fields of the underlying Message with     *)
(* `wire` the parameters of the transform calls in the order of the calls. *)
(***************************************************************************)
\* Most transform calls chained.
MaxChain == 2

Subs == {"negate", "increment", "toBigint"}

Chains == SeqsUpTo(Subs, MaxChain) \ {<<>>}

\* base.transform(chain[1]).transform(chain[2])...
RECURSIVE Transformed(_, _)
Transformed(base, chain) ==
  IF chain = <<>> THEN base
  ELSE transformCodec(Transformed(base, SubSeq(chain, 1, Len(chain) - 1)),
                      chain[Len(chain)])

\* message.transform(chain[1]).transform(chain[2])...
RECURSIVE TransformedMessage(_, _)
TransformedMessage(m, chain) ==
  IF chain = <<>> THEN m
  ELSE Message_transform(TransformedMessage(m, SubSeq(chain, 1, Len(chain) - 1)),
                         chain[Len(chain)])

TransformIntegers == {W(0), W(1), W(-1), W(2), W(-2), W(300)}

TransformValues ==
  {Num(w) : w \in TransformIntegers} \cup {Big(w) : w \in TransformIntegers}

TransformSchema ==
  <<Field("value", 1, Codec("int32"), "None"),
    Field("data", 2, Codec("bytes"), "None")>>

\* Fields the message does not declare, as they follow the sender's bytes.
UnknownTails == {<<>>, <<32, 5>>, <<41, 1, 2, 3, 4, 5, 6, 7, 8, 32, 5>>}

InitTransform ==
  /\ \/ /\ pc = "codec"
        /\ \E base \in {Codec("int32"), Codec("int64"), Codec("sint64")},
              chain \in Chains :
             fields = <<Field("value", 1, Transformed(base, chain), "None")>>
        /\ value \in TransformValues
        /\ wire = <<>>
     \/ /\ pc = "message"
        /\ fields = TransformSchema
        /\ wire \in Chains
        /\ value \in {v \in MessageValues(fields) : GetProp(v, "value").k = "num"}
  /\ buffer = Fresh
  /\ len = 0
  /\ dec = NoDecode
  /\ iters = 0
  /\ result = NoResult
  /\ other = Fresh
  /\ result2 = NoResult
  /\ thrown = ""

\* const n = schema.codec.length(value); schema.wiretype
FieldLength ==
  /\ pc = "codec"
  /\ len' = Transform_length(fields[1].codec, value)
  /\ iters' = Transform_wiretype(fields[1].codec)
  /\ pc' = "codecMeasured"
  /\ UNCHANGED <<fields, value, wire, buffer, dec, result, other, result2,
                 thrown>>

\* schema.codec.encode(value, buffer)
FieldEncode ==
  /\ pc = "codecMeasured"
  /\ buffer' = Transform_encode(fields[1].codec, value, buffer)
  /\ pc' = "codecEncoded"
  /\ UNCHANGED <<fields, value, wire, len, dec, iters, result, other,
                 result2, thrown>>

\* schema.codec.decode(bytes)
FieldDecode ==
  /\ pc = "codecEncoded"
  /\ ~Failed(buffer)
  /\ other' = Received(buffer)
  /\ result' = Transform_decode(fields[1].codec, other')
  /\ pc' = "codecDecoded"
  /\ UNCHANGED <<fields, value, wire, buffer, len, dec, iters, result2,
                 thrown>>

\* const n = transformer.length(value)
TransformerLength ==
  /\ pc = "message"
  /\ len' = MessageTransformer_length(
              TransformedMessage(MessageOf(fields), wire), value)
  /\ pc' = "messageMeasured"
  /\ UNCHANGED <<fields, value, wire, buffer, dec, iters, result, other,
                 result2, thrown>>

\* const buffer = transformer.encode(value)
TransformerEncode ==
  /\ pc = "messageMeasured"
  /\ buffer' = MessageTransformer_encode(
                 TransformedMessage(MessageOf(fields), wire), value, buffer)
  /\ pc' = "messageEncoded"
  /\ UNCHANGED <<fields, value, wire, len, dec, iters, result, other,
                 result2, thrown>>

\* transformer.decode(bytes)
TransformerDecode ==
  /\ pc = "messageEncoded"
  /\ ~Failed(buffer)
  /\ \E tail \in UnknownTails :
       other' = NewProtoBuffer(Bytes_toUint8Array(toShrunk(buffer)) \o tail, <<>>)
  /\ result' = MessageTransformer_decode(
                 TransformedMessage(MessageOf(fields), wire), other')
  /\ pc' = "messageDecoded"
  /\ UNCHANGED <<fields, value, wire, buffer, len, dec, iters, result2,
                 thrown>>

NextTransform ==
  \/ FieldLength \/ FieldEncode \/ FieldDecode
  \/ TransformerLength \/ TransformerEncode \/ TransformerDecode

SpecTransform == InitTransform /\ [][NextTransform]_vars

\* The codec under every transform of c.
RECURSIVE BaseCodec(_)
BaseCodec(c) == IF c.kind = "transform" THEN BaseCodec(c.codec) ELSE c

\* The parameters of the transform calls that built c, in the order of the calls.
RECURSIVE SubsOf(_)
SubsOf(c) ==
  IF c.kind = "transform" THEN Append(SubsOf(c.codec), c.sub) ELSE <<>>

\* t1.encode(t2.encode(... v)) for the calls t1, t2, ...
RECURSIVE EncodedThrough(_, _)
EncodedThrough(subs, v) ==
  IF subs = <<>> THEN v
  ELSE EncodedThrough(SubSeq(subs, 1, Len(subs) - 1), SubEncode(subs[Len(subs)], v))

\* ... t2.decode(t1.decode(x)) for the calls t1, t2, ...
RECURSIVE DecodedThrough(_, _)
DecodedThrough(subs, x) ==
  IF subs = <<>> THEN x
  ELSE DecodedThrough(Tail(subs), SubDecode(Head(subs), x))

\* C18: a field codec built by transform calls t1, t2 over a base codec c
\* writes the bytes c writes for t1.encode(t2.encode(v)), decodes to
\* t2.decode(t1.decode(c.decode(bytes))), has the length
\* c.length(t1.encode(t2.encode(v))) and the wire type of c.
C18_TransformTransparent ==
  pc = "codecDecoded" =>
    LET c == fields[1].codec
        base == BaseCodec(c)
        inner == EncodedThrough(SubsOf(c), value)
        r == CodecDecode(base, other)
    IN /\ buffer = CodecEncode(base, inner, Fresh)
       /\ len = CodecLength(base, inner)
       /\ iters = CodecWiretype(base)
       /\ ~Failed(r.b)
       /\ result = Ret(r.b, DecodedThrough(SubsOf(c), r.v))

\* Two transform calls that do not commute were chained over a base codec
\* and the value went through encode and decode.
C18_Witness ==
  /\ pc = "codecDecoded"
  /\ SubsOf(fields[1].codec) = <<"negate", "increment">>
  /\ value = Num(W(2))
  /\ Written(buffer) = <<5>>
  /\ result.v = Big(W(2))
\* p1.encode(p2.encode(... v)) for the calls transform(p1).transform(p2)...
RECURSIVE ParamsEncodedThrough(_, _)
ParamsEncodedThrough(chain, v) ==
  IF chain = <<>> THEN v
  ELSE ParamsEncodedThrough(SubSeq(chain, 1, Len(chain) - 1),
                            ParamsEncode(chain[Len(chain)], v))

\* ... p2.decode(p1.decode(x)) for the calls transform(p1).transform(p2)...
RECURSIVE ParamsDecodedThrough(_, _)
ParamsDecodedThrough(chain, x) ==
  IF chain = <<>> THEN x
  ELSE ParamsDecodedThrough(Tail(chain), ParamsDecode(Head(chain), x))

\* C19: a message transformed by params (once or again) encodes v as the
\* underlying message encodes params.encode(v), measures the length of
\* params.encode(v), and decodes to params.decode of the underlying result
\* carrying the unknown-fields attachment of the underlying result.
C19_MessageTransform ==
  pc = "messageDecoded" =>
    LET inner == ParamsEncodedThrough(wire, value)
        r == Message_decode(fields, other)
    IN /\ buffer = Message_encode(fields, inner, Fresh)
       /\ len = Message_length(fields, inner)
       /\ ~Failed(r.b)
       /\ result.b = r.b
       /\ result.v.k = "obj"
       /\ DOMAIN result.v.obj = DOMAIN r.v.obj
       /\ \A n \in DOMAIN r.v.obj \ {UnknownFields} :
            result.v.obj[n] = ParamsDecodedThrough(wire, r.v).obj[n]
       /\ result.v.obj[UnknownFields] = r.v.obj[UnknownFields]

\* A message transformed twice decoded bytes that end in two fields it does
\* not declare, and the result carries both.
C19_Witness ==
  /\ pc = "messageDecoded"
  /\ wire = <<"increment", "negate">>
  /\ GetProp(value, "value") = Num(W(1))
  /\ GetProp(result.v, "value") = Num(W(1))
  /\ DOMAIN GetProp(result.v, UnknownFields).umap = {4, 5}
(***************************************************************************)
(* SpecSingle: the run of Spec (measure, encode, decode) for messages      *)
(* whose fields are all non-repeated, over values that reach the ends of   *)
(* each codec's domain.                                                    *)
(***************************************************************************)
\* 2^bits - 1 and -2^bits
MaxOf(bits) == Wide(FALSE, Repeat(1, bits))
MinOf(bits) == Wide(TRUE, Zeros(bits) \o <<1>>)

RECURSIVE SingleDomain(_)
RECURSIVE SingleValues(_)
\* The values of a codec's domain that the run uses.  The bytes codec is a
\* Codec<Uint8Array | Bytes>.
SingleDomain(c) ==
  CASE c.kind = "bool" -> {Bool(FALSE), Bool(TRUE)}
    [] c.kind \in {"int32", "sint32", "sfixed32"} ->
         {Num(w) : w \in {W(0), W(-1), MaxOf(31), MinOf(31)}}
    [] c.kind \in {"uint32", "fixed32"} -> {Num(w) : w \in {W(0), W(1), MaxOf(32)}}
    [] c.kind = "enum" -> {Num(W(0)), Num(W(1)), Num(W(300))}
    [] c.kind \in {"int64", "sint64", "sfixed64"} ->
         {Big(w) : w \in {W(0), W(-1), MaxOf(63), MinOf(63)}}
    [] c.kind \in {"uint64", "fixed64"} -> {Big(w) : w \in {W(0), W(1), MaxOf(64)}}
    [] c.kind = "bytes" -> {U8(<<>>), U8(<<7, 9>>), BytesObj(<<7, 9>>)}
    [] c.kind = "submessage" -> SingleValues(c.fields)

RECURSIVE SingleObjects(_, _)
SingleObjects(fs, i) ==
  IF i > Len(fs) THEN {[n \in {} |-> Undef]}
  ELSE {Put(o, fs[i].name, v) : o \in SingleObjects(fs, i + 1),
                                v \in {Undef} \cup SingleDomain(fs[i].codec)}

\* The message values: each field omitted or holding a value of its domain.
SingleValues(fs) == {Obj(o) : o \in SingleObjects(fs, 1)}

SingleSchemas ==
  { <<Field("a", 1, Codec("int32"), "None"),
      Field("b", 2, Codec("uint32"), "None"),
      Field("c", 3, Codec("sint32"), "None")>>,
    <<Field("a", 1, Codec("int64"), "None"),
      Field("b", 2, Codec("uint64"), "None"),
      Field("c", 3, Codec("sint64"), "None")>>,
    <<Field("a", 1, Codec("fixed32"), "None"),
      Field("b", 2, Codec("sfixed32"), "None"),
      Field("c", 3, Codec("fixed64"), "None"),
      Field("d", 4, Codec("sfixed64"), "None")>>,
    <<Field("on", 1, Codec("bool"), "None"),
      Field("type", 2, Codec("enum"), "None"),
      Field("payload", 3, Codec("bytes"), "None")>>,
    <<Field("sub", 1, Submessage(<<Field("value", 1, Codec("int32"), "None"),
                                   Field("data", 2, Codec("bytes"), "None")>>),
            "None"),
      Field("on", 2, Codec("bool"), "None")>>,
    <<Field("sub", 1,
            Submessage(<<Field("inner", 1,
                               Submessage(<<Field("value", 1, Codec("int32"),
                                                  "None")>>),
                               "None")>>),
            "None")>> }

InitSingle ==
  /\ pc = "start"
  /\ fields \in SingleSchemas
  /\ value \in SingleValues(fields)
  /\ wire = <<>>
  /\ buffer = Fresh
  /\ len = 0
  /\ dec = NoDecode
  /\ iters = 0
  /\ result = NoResult
  /\ other = Fresh
  /\ result2 = NoResult
  /\ thrown = ""

NextSingle == Length \/ Encode \/ Decode

SpecSingle == InitSingle /\ [][NextSingle]_vars

\* Whether the decoded value `got` of a field of codec c is the value `sent`:
\* bytes are compared by content (Bytes.getUint8Array), a submessage field by
\* field with the omitted fields taken as their defaults.
RECURSIVE SameValue(_, _, _)
SameValue(c, sent, got) ==
  CASE c.kind = "bytes" ->
         /\ sent.k \in {"u8", "Bytes"}
         /\ got.k \in {"u8", "Bytes"}
         /\ Payload(sent) = Payload(got)
    [] c.kind = "submessage" ->
         /\ got.k = "obj"
         /\ \A i \in 1..Len(c.fields) :
              LET f == c.fields[i]
                  x == GetProp(sent, f.name)
              IN SameValue(f.codec,
                           IF x.k = "undef" THEN CodecDefault(f.codec) ELSE x,
                           GetProp(got, f.name))
    [] OTHER -> sent = got

\* C20: a message value whose fields are all non-repeated and hold values of
\* their codecs' domains (or are omitted) encodes without an error, and
\* decoding the bytes returns the value with each omitted field replaced by
\* its default, nested submessages field by field.
C20_SingleRoundTrip ==
  /\ pc \in {"encoded", "decoded"} => ~Failed(buffer)
  /\ pc = "decoded" =>
       /\ ~Failed(result.b)
       /\ SameValue(Submessage(fields), value, result.v)

(***************************************************************************)
(* SpecCodec: one primitive codec measures, encodes and decodes one value  *)
(* of its domain, on a new buffer or behind a field header already         *)
(* written.  `fields` holds one field of the codec, `iters` the offset at  *)
(* which the value starts.                                                 *)
(***************************************************************************)
PrimitiveKinds == {"bool"} \cup NumberKinds \cup BigintKinds

\* The values tried: small ones and the ends of the domain.
PrimitiveDomain(c) == CodecDomain(c) \cup SingleDomain(c)

InitCodec ==
  /\ pc = "value"
  /\ \E kind \in PrimitiveKinds : fields = <<Field("value", 1, Codec(kind), "None")>>
  /\ value \in PrimitiveDomain(fields[1].codec)
  /\ buffer \in {Fresh, writeFieldHeader(Fresh, 1, CodecWiretype(fields[1].codec))}
  /\ iters = buffer.offset
  /\ wire = <<>>
  /\ len = 0
  /\ dec = NoDecode
  /\ result = NoResult
  /\ other = Fresh
  /\ result2 = NoResult
  /\ thrown = ""

\* const n = codec.length(value)
CodecMeasure ==
  /\ pc = "value"
  /\ len' = CodecLength(fields[1].codec, value)
  /\ pc' = "valueMeasured"
  /\ UNCHANGED <<fields, value, wire, buffer, dec, iters, result, other,
                 result2, thrown>>

\* codec.encode(value, buffer)
CodecWrite ==
  /\ pc = "valueMeasured"
  /\ buffer' = CodecEncode(fields[1].codec, value, buffer)
  /\ pc' = "valueWritten"
  /\ UNCHANGED <<fields, value, wire, len, dec, iters, result, other,
                 result2, thrown>>

\* buffer.seek(start); codec.decode(buffer)
CodecRead ==
  /\ pc = "valueWritten"
  /\ result' = CodecDecode(fields[1].codec, seek(buffer, iters))
  /\ pc' = "valueRead"
  /\ UNCHANGED <<fields, value, wire, buffer, len, dec, iters, other,
                 result2, thrown>>

NextCodec == CodecMeasure \/ CodecWrite \/ CodecRead

SpecCodec == InitCodec /\ [][NextCodec]_vars

\* C21: for each primitive codec c and each value v of its domain, the ends
\* of the domain included, c.encode advances the offset by exactly
\* c.length(v) bytes and c.decode reads v back from the bytes written.
C21_PrimitiveRoundTrip ==
  /\ pc \in {"valueWritten", "valueRead"} =>
       /\ ~Failed(buffer)
       /\ buffer.offset - iters = len
  /\ pc = "valueRead" =>
       /\ ~Failed(result.b)
       /\ result.v = value
       /\ result.b.offset = buffer.offset

\* The least sfixed32 was written behind a field header and read back.
C21_Witness ==
  /\ pc = "valueRead"
  /\ fields[1].codec.kind = "sfixed32"
  /\ value = Num(MinOf(31))
  /\ iters = 1
  /\ len = 4
  /\ result.v = value

(***************************************************************************)
(* More properties of SpecBuf.                                             *)
(***************************************************************************)
\* C22: for every offset and every n with 0 <= n <= remainingLength,
\* slice(n) returns a sub-buffer whose capacity is exactly n and whose bytes
\* are the parent's bytes [offset, offset + n), and moves the parent's offset
\* on by exactly n.
C22_SliceWindow ==
  [][(/\ pc' = "slice"
      /\ thrown' = ""
      /\ buffer.offset >= 0
      /\ other'.offset - buffer.offset \in 0..remainingLength(buffer))
     => LET n == other'.offset - buffer.offset IN
        /\ Bytes_length(buffer') = n
        /\ Bytes_toUint8Array(buffer')
             = SubSeq(Bytes_toUint8Array(buffer), buffer.offset + 1,
                      buffer.offset + n)]_vars

\* C23: toShrunk returns a buffer whose region is the first writtenLength
\* bytes, so that its capacity and the length of bytes() equal
\* writtenLength, and which keeps the offset and writtenLength of the
\* source, for every writtenLength from 0 to the capacity of the source.
C23_ShrunkToWritten ==
  [][(/\ pc' = "toShrunk"
      /\ buffer.written \in 0..Bytes_length(buffer))
     => /\ thrown' = ""
        /\ Bytes_length(buffer') = buffer.written
        /\ Len(Bytes_toUint8Array(buffer')) = buffer.written
        /\ buffer'.offset = buffer.offset
        /\ buffer'.written = buffer.written]_vars

(***************************************************************************)
(* SpecNew: new Message(fields) for field maps whose keys are distinct     *)
(* property names (the empty name included) and whose indexes may repeat.  *)
(* `result` holds the outcome: b.err what the constructor threw, v the     *)
(* #fieldIndex map it built.                                               *)
(***************************************************************************)
\* Most fields of a field map.
MaxDeclared == 3

\* for (const key in fields) { if (this.#fieldIndex[validator.index]) throw ...;
\*                             this.#fieldIndex[validator.index] = key; }
\* The test is for truthiness: an index held by the key '' counts as free.
RECURSIVE Message_constructor(_, _, _)
Message_constructor(fs, i, fieldIndex) ==
  IF i > Len(fs) THEN Ret(Fresh, UMap(fieldIndex))
  ELSE IF fs[i].index \in DOMAIN fieldIndex /\ fieldIndex[fs[i].index] # ""
    THEN Ret(Throw(Fresh, "Error: Duplicate field index"), UMap(fieldIndex))
  ELSE Message_constructor(fs, i + 1, Put(fieldIndex, fs[i].index, fs[i].name))

\* The field maps: up to MaxDeclared int32 fields under distinct keys.
FieldMaps ==
  {fs \in SeqsUpTo({Field(n, i, Codec("int32"), "None") :
                      n \in {"", "a", "b"}, i \in 1..2}, MaxDeclared) :
     \A i, j \in 1..Len(fs) : i # j => fs[i].name # fs[j].name}

InitNew ==
  /\ pc = "fields"
  /\ fields \in FieldMaps
  /\ value = Undef
  /\ wire = <<>>
  /\ buffer = Fresh
  /\ len = 0
  /\ dec = NoDecode
  /\ iters = 0
  /\ result = NoResult
  /\ other = Fresh
  /\ result2 = NoResult
  /\ thrown = ""

\* new Message(fields)
Construct ==
  /\ pc = "fields"
  /\ result' = Message_constructor(fields, 1, [i \in {} |-> ""])
  /\ pc' = "constructed"
  /\ UNCHANGED <<fields, value, wire, buffer, len, dec, iters, other,
                 result2, thrown>>

NextNew == Construct

SpecNew == InitNew /\ [][NextNew]_vars

\* C24: new Message(fields) fails when two fields of the map have the same
\* index and succeeds when the indexes are pairwise distinct, and then the
\* reverse map sends each declared index to the name of its field.
C24_DuplicateIndexRejected ==
  pc = "constructed" =>
    IF \E i, j \in 1..Len(fields) : i # j /\ fields[i].index = fields[j].index
      THEN Failed(result.b)
    ELSE /\ ~Failed(result.b)
         /\ DOMAIN result.v.umap = {fields[i].index : i \in 1..Len(fields)}
         /\ \A i \in 1..Len(fields) : result.v.umap[fields[i].index] = fields[i].name

(***************************************************************************)
(* SpecFraming: the run of Spec (measure, encode, decode) for messages of  *)
(* one field in each encode mode, the repeated fields with a LEN codec     *)
(* (bytes, submessage) included.                                           *)
(***************************************************************************)
FramingSchemas ==
  { <<Field("value", 1, Codec("int32"), "None")>>,
    <<Field("data", 2, Codec("bytes"), "None")>>,
    <<Field("items", 1, Codec("int32"), "Default")>>,
    <<Field("items", 1, Codec("int32"), "Expanded")>>,
    <<Field("stamps", 3, Codec("fixed64"), "Default")>>,
    <<Field("sizes", 4, Codec("fixed32"), "Expanded")>>,
    <<Field("deltas", 5, Codec("sint64"), "Default")>>,
    <<Field("blobs", 6, Codec("bytes"), "Default")>>,
    <<Field("blobs", 6, Codec("bytes"), "Expanded")>>,
    <<Field("subs", 7, Submessage(<<Field("value", 1, Codec("int32"), "None")>>),
            "Default")>>,
    <<Field("parts", 8, Submessage(<<Field("data", 1, Codec("bytes"), "None")>>),
            "Expanded")>> }

InitFraming ==
  /\ pc = "start"
  /\ fields \in FramingSchemas
  /\ value \in MessageValues(fields)
  /\ wire = <<>>
  /\ buffer = Fresh
  /\ len = 0
  /\ dec = NoDecode
  /\ iters = 0
  /\ result = NoResult
  /\ other = Fresh
  /\ result2 = NoResult
  /\ thrown = ""

NextFraming == Length \/ Encode \/ Decode

SpecFraming == InitFraming /\ [][NextFraming]_vars

\* The bytes codec c writes for x into a new buffer.
EncodingOf(c, x) == Written(CodecEncode(c, x, Fresh))

\* The sum of the codec lengths of the items.
RECURSIVE SumOfLengths(_, _)
SumOfLengths(c, items) ==
  IF items = <<>> THEN 0 ELSE CodecLength(c, Head(items)) + SumOfLengths(c, Tail(items))

\* The encodings of the items, each behind `header`.
RECURSIVE ItemsFramed(_, _, _)
ItemsFramed(c, items, header) ==
  IF items = <<>> THEN <<>>
  ELSE header \o EncodingOf(c, Head(items)) \o ItemsFramed(c, Tail(items), header)

\* The framing of field f holding v: nothing for a missing value, an empty
\* array or a default scalar; else one header and one value, or one LEN
\* header, the varint of the summed lengths and the items, or one header and
\* one value per item.
FramedField(f, v) ==
  LET wt == CodecWiretype(f.codec) IN
  IF f.repeated = "None"
    THEN IF v = Undef \/ CodecIsDefault(f.codec, v) = "yes" THEN <<>>
         ELSE <<f.index * 8 + wt>> \o EncodingOf(f.codec, v)
  ELSE IF v = Undef \/ v = Arr(<<>>) THEN <<>>
  ELSE IF f.repeated = "Default" /\ wt \in {Varint, I32, I64}
    THEN <<f.index * 8 + LenType>> \o VarintOf(SumOfLengths(f.codec, v.arr))
         \o ItemsFramed(f.codec, v.arr, <<>>)
  ELSE ItemsFramed(f.codec, v.arr, <<f.index * 8 + wt>>)

\* C25: a non-repeated field is written as one header of the codec's wire
\* type and one value; a repeated field of mode Default with a VARINT, I32 or
\* I64 codec as one LEN header, one varint of the sum of the items' codec
\* lengths and the items' encodings; a repeated field of mode Expanded or
\* with a LEN codec as one header of the codec's wire type and one value per
\* item; an empty array writes nothing.
C25_EncodeFraming ==
  pc = "encoded" =>
    /\ ~Failed(buffer)
    /\ Written(buffer) = FramedField(fields[1], GetProp(value, fields[1].name))

(***************************************************************************)
(* SpecNested: the run of SpecWire for a message with a submessage field,  *)
(* on bytes whose nested message holds fields it does not declare; the     *)
(* re-encoded bytes are decoded again.                                     *)
(***************************************************************************)
NestedFields == <<Field("value", 1, Codec("int32"), "None")>>

NestedSchema ==
  <<Field("sub", 1, Submessage(NestedFields), "None"),
    Field("on", 2, Codec("bool"), "None")>>

\* Fields as they arrive: the submessage (field 1, LEN) with value 5, with
\* value 5 and the undeclared field 4, with the undeclared field 4 alone,
\* with the undeclared fields 4 and 5, and empty; field 2 (bool) set.
NestedWire ==
  { <<10, 2, 8, 5>>,
    <<10, 4, 8, 5, 32, 5>>,
    <<10, 2, 32, 5>>,
    <<10, 6, 8, 5, 32, 5, 40, 6>>,
    <<10, 0>>,
    <<16, 1>> }

InitNested ==
  /\ pc = "received"
  /\ fields = NestedSchema
  /\ wire \in SeqsUpTo(NestedWire, MaxFields)
  /\ value = Undef
  /\ buffer = Fresh
  /\ len = 0
  /\ dec = NoDecode
  /\ iters = 0
  /\ result = NoResult
  /\ other = Fresh
  /\ result2 = NoResult
  /\ thrown = ""

\* message.decode(reencoded bytes)
DecodeAgain ==
  /\ pc = "reencoded"
  /\ ~Failed(buffer)
  /\ result2' = Message_decode(fields, Received(buffer))
  /\ pc' = "decodedAgain"
  /\ UNCHANGED <<fields, value, wire, buffer, len, dec, iters, result, other,
                 thrown>>

NextNested == DecodeStart \/ DecodeStep \/ DecodeEnd \/ Reencode \/ DecodeAgain

SpecNested == InitNested /\ [][NextNested]_vars

\* C26: the length varint the submessage codec writes equals the number of
\* bytes the nested Message.encode then writes for the same value, also for
\* a nested value that carries unknown fields from an earlier decode, so
\* that decoding the re-encoded outer message finds the nested message and
\* the field after it as they were.
C26_SubmessageFraming ==
  /\ pc = "reencoded" =>
       LET s == GetProp(value, "sub")
           nested == Written(Message_encode(NestedFields, s, Fresh))
       IN /\ ~Failed(buffer)
          /\ Written(CodecEncode(Submessage(NestedFields), s, Fresh))
               = VarintOf(Len(nested)) \o nested
  /\ pc = "decodedAgain" =>
       /\ ~Failed(result2.b)
       /\ result2.v = result.v

(***************************************************************************)
(* SpecVarint: one varint that arrived from elsewhere is read by           *)
(* readUvarint, by readVarint or by the uint64 codec.  `wire` holds the    *)
(* bytes: up to MaxGroups bytes with the continuation bit, then one        *)
(* without.                                                                *)
(***************************************************************************)
\* Most continuation bytes of a varint read.
MaxGroups == 10

VarintBytes ==
  {Repeat(c, k) \o <<last>> : c \in {128, 255}, k \in 0..MaxGroups,
                              last \in {0, 1, 127}}

InitVarint ==
  /\ pc = "bytes"
  /\ wire \in VarintBytes
  /\ fields = <<>>
  /\ value = Undef
  /\ buffer = NewProtoBuffer(wire, <<>>)
  /\ len = 0
  /\ dec = NoDecode
  /\ iters = 0
  /\ result = NoResult
  /\ other = Fresh
  /\ result2 = NoResult
  /\ thrown = ""

\* buffer.readUvarint()
TakeUvarint ==
  /\ pc = "bytes"
  /\ result' = readUvarint(buffer)
  /\ pc' = "readUvarint"
  /\ UNCHANGED <<fields, value, wire, buffer, len, dec, iters, other, result2,
                 thrown>>

\* buffer.readVarint()
TakeVarint ==
  /\ pc = "bytes"
  /\ result' = readVarint(buffer)
  /\ pc' = "readVarint"
  /\ UNCHANGED <<fields, value, wire, buffer, len, dec, iters, other, result2,
                 thrown>>

\* codecs.uint64.decode(buffer)
TakeUint64 ==
  /\ pc = "bytes"
  /\ result' = CodecDecode(Codec("uint64"), buffer)
  /\ pc' = "uint64"
  /\ UNCHANGED <<fields, value, wire, buffer, len, dec, iters, other, result2,
                 thrown>>

NextVarint == TakeUvarint \/ TakeVarint \/ TakeUint64

SpecVarint == InitVarint /\ [][NextVarint]_vars

\* C27: whatever the bytes, readUvarint and the uint64 codec's decode
\* succeed only with a value in [0, 2^64) and readVarint only with a value
\* in [-2^63, 2^63).
C27_VarintWithin64Bits ==
  /\ (pc \in {"readUvarint", "uint64"} /\ ~Failed(result.b)) =>
       (~result.v.big.neg /\ Len(result.v.big.mag) <= 64)
  /\ (pc = "readVarint" /\ ~Failed(result.b)) => InInt64(result.v.big)

(***************************************************************************)
(* More properties of SpecWire: the length prefixes read during a decode.  *)
(***************************************************************************)
\* The length prefix of the LEN value whose header is next in b, as
\* Number(buffer.readVarint()) gives it: [ok, length, after].
LengthPrefix(b) ==
  Let(readFieldHeader(b), LAMBDA h :
    IF Failed(h.b) \/ h.v[2] # LenType
    THEN [ok |-> FALSE, length |-> 0, after |-> h.b]
    ELSE Let(readVarint(h.b), LAMBDA r :
           IF Failed(r.b) THEN [ok |-> FALSE, length |-> 0, after |-> r.b]
           ELSE [ok |-> TRUE, length |-> ToLength(r.v.big), after |-> r.b]))

\* C28: a turn of the decode loop that does not fail leaves the offset no
\* lower than it found it, and the length prefix L it read for a LEN value
\* satisfied 0 <= L <= remainingLength.
C28_LengthPrefixChecked ==
  (pc = "decoding" /\ DecodeMore(dec)) =>
    Let(DecodeIter(fields, dec), LAMBDA after :
      \/ Failed(after.b)
      \/ /\ after.b.offset >= dec.b.offset
         /\ LET p == LengthPrefix(dec.b) IN
            p.ok => (0 <= p.length /\ p.length <= remainingLength(p.after)))

(***************************************************************************)
(* SpecUnknown: Message.decode of payloads whose fields the schema does    *)
(* not declare, in every wire-type code 0..7 a header can carry.           *)
(***************************************************************************)
\* Field 4, which the schema does not declare, once per wire-type code
\* (header = 4 * 8 + code), field 5 as a second VARINT, and field 1, which
\* the schema declares, as a VARINT and with the code 6.
UnknownWire ==
  { <<32, 5>>,
    <<33, 1, 2, 3, 4, 5, 6, 7, 8>>,
    <<34, 2, 7, 9>>,
    <<35>>,
    <<36>>,
    <<37, 1, 2, 3, 4>>,
    <<38>>,
    <<39>>,
    <<40, 6>>,
    <<8, 5>>,
    <<14, 5>> }

InitUnknown ==
  /\ pc = "received"
  /\ fields \in WireSchemas
  /\ wire \in SeqsUpTo(UnknownWire, MaxFields)
  /\ value = Undef
  /\ buffer = Fresh
  /\ len = 0
  /\ dec = NoDecode
  /\ iters = 0
  /\ result = NoResult
  /\ other = Fresh
  /\ result2 = NoResult
  /\ thrown = ""

NextUnknown == DecodeStart \/ DecodeStep \/ DecodeEnd

SpecUnknown == InitUnknown /\ [][NextUnknown]_vars

\* The entries of an unknown-fields attachment: a slot holds one entry or,
\* once an index came twice, an array of them.
UnknownEntries(u) ==
  UNION { IF IsArray(u[i]) THEN {u[i].arr[j].unk : j \in 1..Len(u[i].arr)}
          ELSE {u[i].unk} : i \in DOMAIN u }

\* C29: every entry a successful decode stores in the unknown-fields
\* attachment has a wire type in {VARINT, I64, LEN, I32} and a defined raw
\* value, and a payload with a header of wire-type code 6 or 7 makes the
\* decode fail.
C29_UnknownEntriesWellTyped ==
  (pc = "decoded" /\ ~Failed(result.b)) =>
    /\ \A e \in UnknownEntries(GetProp(result.v, UnknownFields).umap) :
         e.wiretype \in {Varint, I64, LenType, I32} /\ e.value # Undef
    /\ \A i \in 1..Len(wire) : Head(wire[i]) % 8 \notin {6, 7}

(***************************************************************************)
(* SpecAbsent: a receiver decodes a payload that lacks its submessage      *)
(* field, and the same payload with the field added as a LEN value of      *)
(* length zero.                                                            *)
(***************************************************************************)
\* The nested schemas.
AbsentNested ==
  { <<Field("value", 1, Codec("int32"), "None")>>,
    <<Field("value", 1, Codec("int64"), "None"),
      Field("data", 2, Codec("bytes"), "None")>>,
    <<Field("items", 1, Codec("int32"), "Default")>>,
    <<Field("value", 1, Codec("int32"), "None"),
      Field("items", 2, Codec("bool"), "Expanded")>>,
    <<Field("inner", 1, Submessage(NestedFields), "None")>>,
    <<Field("inner", 1, Submessage(Inner), "None")>> }

\* The receiver's message: the submessage (field 1) and a bool (field 2).
AbsentSchemas ==
  { <<Field("sub", 1, Submessage(nested), "None"),
      Field("on", 2, Codec("bool"), "None")>> : nested \in AbsentNested }

\* The other fields of the payload: field 2 set, and field 4, which the
\* receiver does not declare.
AbsentWire == { <<16, 1>>, <<32, 5>> }

\* The payload with the submessage field added, empty, before field k + 1.
WithEmptySub(fs, k) ==
  Flatten(SubSeq(fs, 1, k)) \o <<10, 0>> \o Flatten(SubSeq(fs, k + 1, Len(fs)))

InitAbsent ==
  /\ pc = "received"
  /\ fields \in AbsentSchemas
  /\ wire \in SeqsUpTo(AbsentWire, MaxFields)
  /\ value = Undef
  /\ buffer = Fresh
  /\ len = 0
  /\ dec = NoDecode
  /\ iters \in 0..Len(wire)
  /\ result = NoResult
  /\ other = Fresh
  /\ result2 = NoResult
  /\ thrown = ""

\* message.decode(payload), the field absent.
DecodeAbsent ==
  /\ pc = "received"
  /\ result' = Message_decode(fields, NewProtoBuffer(Flatten(wire), <<>>))
  /\ pc' = "absent"
  /\ UNCHANGED <<fields, value, wire, buffer, len, dec, iters, other, result2,
                 thrown>>

\* message.decode(payload), the field present with length zero.
DecodePresent ==
  /\ pc = "absent"
  /\ result2' = Message_decode(fields,
                  NewProtoBuffer(WithEmptySub(wire, iters), <<>>))
  /\ pc' = "present"
  /\ UNCHANGED <<fields, value, wire, buffer, len, dec, iters, result, other,
                 thrown>>

NextAbsent == DecodeAbsent \/ DecodePresent

SpecAbsent == InitAbsent /\ [][NextAbsent]_vars

\* C30: when both decodes succeed, the value of the submessage field decoded
\* from the payload without the field is the value decoded from the payload
\* that carries the field with length zero, compared field by field.
C30_AbsentIsEmpty ==
  (pc = "present" /\ ~Failed(result.b) /\ ~Failed(result2.b)) =>
    SameValue(fields[1].codec, GetProp(result.v, "sub"),
              GetProp(result2.v, "sub"))
=============================================================================
